---- MODULE Spec2Model ----
(***************************************************************************)
(* Content realization (crates/typst/src/realize/mod.rs): show-rule        *)
(* application (applicable, realize, try_apply) and structural grouping    *)
(* (Builder::accept with the interrupt cascade over the cites, list, par,  *)
(* flow and doc sub-builders).                                             *)
(*                                                                         *)
(* The recursive functions of the source are RECURSIVE operators over a    *)
(* builder record; `log` is a history variable recording the order of the  *)
(* calls they make.                                                        *)
(***************************************************************************)
EXTENDS Integers, Sequences, FiniteSets, TLC

VARIABLES
    scn,      \* which family of inputs this run draws from
    mode,     \* "root" (realize_root) or "block" (realize_block)
    styles0,  \* the style chain handed to the entry point
    bld,      \* the Builder, the engine's route counter, and the history
              \* of the calls made so far (bld.log)
    todo,     \* the call stack: the calls still to be made, first on top
    phase,    \* "feed": walking the top-level sequence; "finish": in the
              \* final interrupt; "done": returned
    result,   \* the value the entry point returned
    ptarget,  \* pure checks: the target handed to applicable / realize
    pstyles,  \* pure checks: the style chain handed to them
    pres      \* pure checks: what they returned

vars == <<scn, mode, styles0, bld, todo, phase, result, ptarget, pstyles, pres>>

(* Bounds of the model. *)
MaxLen == 3

(* Route::MAX_SHOW_RULE_DEPTH: 64 in the engine, scaled down here so that  *)
(* the nested accepts of a self-matching show rule stay small.             *)
MAX_SHOW_RULE_DEPTH == 64

----------------------------------------------------------------------------
(* Sequence helpers. *)

Range(s) == {s[i] : i \in 1..Len(s)}

RECURSIVE Reverse(_)
Reverse(s) == IF s = <<>> THEN <<>> ELSE Append(Reverse(Tail(s)), Head(s))

RECURSIVE Flatten(_)
Flatten(ss) == IF ss = <<>> THEN <<>> ELSE Head(ss) \o Flatten(Tail(ss))

RECURSIVE CommonPrefix(_, _)
CommonPrefix(a, b) ==
    IF a = <<>> \/ b = <<>> \/ Head(a) # Head(b) THEN <<>>
    ELSE <<Head(a)>> \o CommonPrefix(Tail(a), Tail(b))

----------------------------------------------------------------------------
(* Styles: a map holds set rules (the elements they are for) and recipes;  *)
(* a chain is a sequence of maps, outermost first.                         *)

NoStyles == [sets |-> {}, recipes |-> <<>>]

DefaultChain == <<>>

\* Styles::is_empty
MapIsEmpty(map) == map.sets = {} /\ map.recipes = <<>>

\* Styles::apply
MapApply(map, outer) ==
    [sets |-> map.sets \cup outer.sets, recipes |-> outer.recipes \o map.recipes]

\* StyleChain::chain
Chain(styles, map) == Append(styles, map)

\* StyleChain::recipes: innermost first
Recipes(styles) == Reverse(Flatten([i \in 1..Len(styles) |-> styles[i].recipes]))

\* Styles::interruption::<T>: a set rule for T, or a recipe selecting T
Interruption(map, k) ==
    \/ k \in map.sets
    \/ \E i \in 1..Len(map.recipes) :
          map.recipes[i].sel.s = "elem" /\ map.recipes[i].sel.k = k

\* Selectors and transformations of a recipe.
SelElem(k) == [s |-> "elem", k |-> k, l |-> 0, re |-> ""]
SelLabel(l) == [s |-> "label", k |-> "", l |-> l, re |-> ""]
SelRegex(re) == [s |-> "regex", k |-> "", l |-> 0, re |-> re]
SelOr(k, l) == [s |-> "or", k |-> k, l |-> l, re |-> ""]
SelNone == [s |-> "none", k |-> "", l |-> 0, re |-> ""]

TrIt == [t |-> "it", k |-> "", sets |-> {}]
TrFresh == [t |-> "fresh", k |-> "", sets |-> {}]
TrScoped(k) == [t |-> "scoped", k |-> k, sets |-> {}]
TrConst(k) == [t |-> "const", k |-> k, sets |-> {}]
TrNone == [t |-> "none", k |-> "", sets |-> {}]
TrStyle(sets) == [t |-> "style", k |-> "", sets |-> sets]

Recipe(sel, tr) == [sel |-> sel, tr |-> tr]

RecipeMap(r) == [sets |-> {}, recipes |-> <<r>>]
SetMap(sets) == [sets |-> sets, recipes |-> <<>>]

----------------------------------------------------------------------------
(* Content: an element, a sequence or a styled node.                       *)

Elem(k, i) ==
    [kind |-> k, id |-> i, label |-> 0, guards |-> {}, prepared |-> FALSE,
     located |-> FALSE, synth |-> 0, kids |-> <<>>, map |-> NoStyles,
     weak |-> FALSE, to |-> "none", tight |-> TRUE, block |-> FALSE,
     text |-> <<>>]

Text(t) == [Elem("Text", 0) EXCEPT !.text = t]
Labelled(c, l) == [c EXCEPT !.label = l]
Pagebreak(weak, to) == [Elem("Pagebreak", 0) EXCEPT !.weak = weak, !.to = to]
WithKids(k, kids) == [Elem(k, 0) EXCEPT !.kids = kids]
Nil == Elem("Nil", 0)

\* Content::sequence
Sequence(cs) ==
    IF Len(cs) = 1 THEN cs[1] ELSE WithKids("Sequence", cs)

\* Content::styled_with_map
StyledWithMap(c, map) ==
    IF MapIsEmpty(map) THEN c
    ELSE [Elem("Styled", 0) EXCEPT !.kids = <<c>>, !.map = map]

\* Content + Content
ContentAdd(lhs, rhs) ==
    IF lhs.kind = "Sequence" THEN [lhs EXCEPT !.kids = Append(@, rhs)]
    ELSE WithKids("Sequence", <<lhs, rhs>>)

\* Content::guarded, is_guarded, is_prepared, mark_prepared
Guarded(c, g) == [c EXCEPT !.guards = @ \cup {g}]
IsGuarded(c, g) == g \in c.guards
IsPrepared(c) == c.prepared
MarkPrepared(c) == [c EXCEPT !.prepared = TRUE]

\* The capabilities of the element kinds.
CanShow(k) == k \in {"Heading", "CiteGroup"}
CanShowSet(k) == k \in {"Heading"}
CanSynthesize(k) == k \in {"Heading", "Cite"}
CanLocatable(k) == k \in {"Heading", "CiteGroup"}
CanLayoutMath(k) == k \in {"Math", "Equation"}
CanLayoutSingle(k) == k \in {"Image"}
CanLayoutMultiple(k) == k \in {"Block", "List", "Enum", "Terms", "Flow"}

\* Content::needs_preparation
NeedsPreparation(c) ==
    /\ ~IsPrepared(c)
    /\ (CanLocatable(c.kind) \/ CanSynthesize(c.kind) \/ c.label # 0)

\* Selector::matches
Matches(sel, c) ==
    CASE sel.s = "elem" -> c.kind = sel.k
      [] sel.s = "label" -> c.label = sel.l
      [] sel.s = "regex" -> c.kind = "Text" /\ sel.re \in Range(c.text)
      [] sel.s = "or" -> c.kind = sel.k \/ c.label = sel.l
      [] OTHER -> FALSE

\* Recipe::applicable
RecipeApplicable(r, c) == r.sel.s # "none" /\ Matches(r.sel, c)

IsStyle(r) == r.tr.t = "style"

\* Recipe::apply: what the transformation makes of its argument
Apply(r, c) ==
    CASE r.tr.t = "it" -> c
      [] r.tr.t = "fresh" -> [Elem(c.kind, c.id) EXCEPT !.text = c.text]
      [] r.tr.t = "const" ->
            IF r.tr.k = "Text" THEN Text(<<"a">>) ELSE Elem(r.tr.k, 0)
      [] r.tr.t = "none" -> Sequence(<<>>)
      [] r.tr.t = "scoped" ->
            StyledWithMap(c, RecipeMap(Recipe(SelElem(r.tr.k), TrIt)))
      [] OTHER -> StyledWithMap(c, SetMap(r.tr.sets))

\* The built-in show rule of a showable element.
BuiltinShow(c, styles) ==
    IF c.kind = "Heading" THEN Elem("Block", c.id) ELSE Text(<<"a">>)

\* The built-in show-set styles of an element.
BuiltinShowSet(c, styles) == SetMap({"Text"})

----------------------------------------------------------------------------
(* try_apply, realize and applicable.                                      *)

\* Option<Content>, with how it came about: "prepare" (lines 123-160, with
\* the show-set styles `map`), "recipe" (lines 166-177, with the guard index
\* and the copies handed to Recipe::apply) or "show" (lines 180-182).
None ==
    [some |-> FALSE, out |-> Nil, how |-> "none", idx |-> 0, map |-> NoStyles,
     args |-> <<>>]
Some(c, how, idx, map, args) ==
    [some |-> TRUE, out |-> c, how |-> how, idx |-> idx, map |-> map,
     args |-> args]

\* try_apply, regex arm: the pieces of the text, the matches transformed
RECURSIVE RegexPieces(_, _, _, _, _, _)
RegexPieces(elem, recipe, guard, i, cursor, acc) ==
    LET text == elem.text
        make(s) == [elem EXCEPT !.text = s]
    IN  IF i > Len(text)
        THEN IF acc = <<>> THEN <<>>
             ELSE IF cursor < Len(text)
                  THEN Append(acc, make(SubSeq(text, cursor + 1, Len(text))))
                  ELSE acc
        ELSE IF text[i] = recipe.sel.re
             THEN LET before == IF cursor < i - 1
                                THEN <<make(SubSeq(text, cursor + 1, i - 1))>>
                                ELSE <<>>
                      piece == Guarded(make(<<text[i]>>), guard)
                  IN  RegexPieces(elem, recipe, guard, i + 1, i,
                                  (acc \o before) \o <<Apply(recipe, piece)>>)
             ELSE RegexPieces(elem, recipe, guard, i + 1, cursor, acc)

\* try_apply, line 233: the matched pieces, guarded, as handed to apply
RegexArgs(elem, recipe, guard) ==
    [i \in 1..Cardinality({j \in 1..Len(elem.text) :
                              elem.text[j] = recipe.sel.re}) |->
        Guarded([elem EXCEPT !.text = <<recipe.sel.re>>], guard)]

\* try_apply as it would be if it handed the target itself to the
\* transform, without the guard
TryApplyUnguarded(target, recipe, guard) ==
    CASE recipe.sel.s = "elem" ->
            IF target.kind # recipe.sel.k THEN None
            ELSE Some(Apply(recipe, target), "recipe", guard, NoStyles,
                      <<target>>)
      [] recipe.sel.s = "label" ->
            IF target.label # recipe.sel.l THEN None
            ELSE Some(Apply(recipe, target), "recipe", guard, NoStyles,
                      <<target>>)
      [] recipe.sel.s = "regex" ->
            IF target.kind # "Text"
               \/ recipe.sel.re \notin Range(target.text) THEN None
            ELSE Some(Apply(recipe, [target EXCEPT !.text = <<recipe.sel.re>>]),
                      "recipe", guard, NoStyles,
                      <<[target EXCEPT !.text = <<recipe.sel.re>>]>>)
      [] OTHER -> None

\* try_apply
TryApply(target, recipe, guard) ==
    CASE recipe.sel.s = "elem" ->
            IF target.kind # recipe.sel.k THEN None
            ELSE Some(Apply(recipe, Guarded(target, guard)), "recipe", guard,
                      NoStyles, <<Guarded(target, guard)>>)
      [] recipe.sel.s = "label" ->
            IF target.label # recipe.sel.l THEN None
            ELSE Some(Apply(recipe, Guarded(target, guard)), "recipe", guard,
                      NoStyles, <<Guarded(target, guard)>>)
      [] recipe.sel.s = "regex" ->
            IF target.kind # "Text" THEN None
            ELSE LET res == RegexPieces(target, recipe, guard, 1, 0, <<>>)
                 IN  IF res = <<>> THEN None
                     ELSE Some(Sequence(res), "recipe", guard, NoStyles,
                               RegexArgs(target, recipe, guard))
      [] OTHER -> None

\* realize, lines 104-120: the show-set styles of an unprepared target
RECURSIVE UserShowSet(_, _, _)
UserShowSet(target, rs, map) ==
    IF rs = <<>> THEN map
    ELSE LET recipe == Head(rs)
         IN  IF IsStyle(recipe) /\ RecipeApplicable(recipe, target)
             THEN UserShowSet(target, Tail(rs), MapApply(map, SetMap(recipe.tr.sets)))
             ELSE UserShowSet(target, Tail(rs), map)

\* the show-set styles as they would be without the test of line 104
ShowSetStylesAlways(target, styles) ==
    LET map == UserShowSet(target, Recipes(styles), NoStyles)
    IN  IF CanShowSet(target.kind)
        THEN MapApply(map, BuiltinShowSet(target, Chain(styles, map)))
        ELSE map

ShowSetStyles(target, styles) ==
    IF ~IsPrepared(target)
    THEN LET map == UserShowSet(target, Recipes(styles), NoStyles)
         IN  IF CanShowSet(target.kind)
             THEN MapApply(map, BuiltinShowSet(target, Chain(styles, map)))
             ELSE map
    ELSE NoStyles

\* realize, lines 125-144: the copy of the target, located, synthesized and
\* marked prepared
PreparedElem(target) ==
    LET located == IF CanLocatable(target.kind) \/ target.label # 0
                   THEN [target EXCEPT !.located = TRUE] ELSE target
        synthesized == IF CanSynthesize(located.kind)
                       THEN [located EXCEPT !.synth = @ + 1] ELSE located
    IN  MarkPrepared(synthesized)

\* realize, lines 123-160: what preparation returns
Prepare(target, map) ==
    IF PreparedElem(target).located
    THEN StyledWithMap(ContentAdd(PreparedElem(target), Elem("Meta", 0)),
                       MapApply(map, SetMap({"Meta"})))
    ELSE StyledWithMap(PreparedElem(target), map)

\* Option::or_else
OrElse(first, second) == IF first.some THEN first ELSE second

\* the loop of lines 166-177 as it would be if the outermost recipe that
\* yields content won
ShowRecipeOutward(target, rs, n) ==
    LET yields == {k \in 1..Len(rs) :
                      /\ ~IsStyle(rs[k])
                      /\ ~IsGuarded(target, n - k + 1)
                      /\ RecipeApplicable(rs[k], target)
                      /\ TryApply(target, rs[k], n - k + 1).some}
        last   == CHOOSE k \in yields : \A j \in yields : j <= k
    IN  IF yields = {} THEN None
        ELSE TryApply(target, rs[last], n - last + 1)

\* realize, lines 162-177: the first recipe that yields content
RECURSIVE ShowRecipe(_, _, _)
ShowRecipe(target, rs, n) ==
    IF rs = <<>> THEN None
    ELSE OrElse(IF /\ ~IsStyle(Head(rs))
                   /\ ~IsGuarded(target, n)
                   /\ RecipeApplicable(Head(rs), target)
                THEN TryApply(target, Head(rs), n)
                ELSE None,
                ShowRecipe(target, Tail(rs), n - 1))

\* realize, lines 179-184: the built-in show rule if no recipe yielded content
ShowBuiltin(target, styles) ==
    IF CanShow(target.kind)
    THEN Some(BuiltinShow(target, styles), "show", 0, NoStyles, <<>>)
    ELSE None

\* realize, lines 122-184, with the show-set styles `map` of lines 104-120
RealizeWith(target, styles, map) ==
    IF NeedsPreparation(target) \/ ~MapIsEmpty(map)
    THEN Some(Prepare(target, map), "prepare", 0, map, <<>>)
    ELSE OrElse(ShowRecipe(target, Recipes(styles), Len(Recipes(styles))),
                ShowBuiltin(target, styles))

\* realize
Realize(target, styles) ==
    RealizeWith(target, styles, ShowSetStyles(target, styles))

\* the loop of lines 82-91 as it would be if it counted the recipes upwards
\* from the innermost
AnyRecipeUpward(target, rs, n) ==
    \E k \in 1..Len(rs) :
        /\ ~IsGuarded(target, k)
        /\ RecipeApplicable(rs[k], target)
        /\ (~IsStyle(rs[k]) \/ ~IsPrepared(target))

\* applicable, lines 82-91
RECURSIVE AnyRecipe(_, _, _)
AnyRecipe(target, rs, n) ==
    IF rs = <<>> THEN FALSE
    ELSE LET recipe == Head(rs)
         IN  IF /\ ~IsGuarded(target, n)
                /\ RecipeApplicable(recipe, target)
                /\ (~IsStyle(recipe) \/ ~IsPrepared(target))
             THEN TRUE
             ELSE AnyRecipe(target, Tail(rs), n - 1)

Applicable(target, styles) ==
    IF NeedsPreparation(target) \/ CanShow(target.kind) THEN TRUE
    ELSE LET rs == Recipes(styles) IN AnyRecipe(target, rs, Len(rs))

----------------------------------------------------------------------------
(* BehavedBuilder and StyleVecBuilder (realize/behave.rs, foundations).    *)

Weak(l) == [b |-> "weak", l |-> l]
Supportive == [b |-> "supportive", l |-> 0]
Destructive == [b |-> "destructive", l |-> 0]
Invisible == [b |-> "invisible", l |-> 0]

\* Behave::behaviour; an element without Behave is supportive
Behaviour(c) ==
    CASE c.kind = "Space" -> Weak(2)
      [] c.kind = "V" -> Weak(c.id)
      [] c.kind = "Meta" -> Invisible
      [] c.kind = "Linebreak" -> Destructive
      [] OTHER -> Supportive

Entry(c, st) == [c |-> c, st |-> st]

\* StyleVecBuilder::finish: the items and the style chain they share
RECURSIVE SharedChain(_)
SharedChain(items) ==
    IF items = <<>> THEN DefaultChain
    ELSE IF Len(items) = 1 THEN items[1].st
    ELSE CommonPrefix(items[1].st, SharedChain(Tail(items)))

Children(items) == [i \in 1..Len(items) |-> items[i].c]

BehavedNew == [builder |-> <<>>, staged |-> <<>>, last |-> Destructive]

\* BehavedBuilder::is_empty
BehavedIsEmpty(bb) == bb.builder = <<>> /\ bb.staged = <<>>

\* BehavedBuilder::has_strong_elements
HasStrongElements(bb, last) ==
    \/ bb.builder # <<>>
    \/ \E i \in 1..Len(bb.staged) :
          \/ bb.staged[i].beh.b \notin {"weak", "invisible"}
          \/ (last /\ bb.staged[i].beh.b = "invisible")

\* BehavedBuilder::flush
Flush(bb, supportive) ==
    LET keep == SelectSeq(bb.staged,
                          LAMBDA e : supportive \/ e.beh.b = "invisible")
    IN  [bb EXCEPT !.builder = @ \o [i \in 1..Len(keep) |->
                                       Entry(keep[i].c, keep[i].st)],
                   !.staged = <<>>]

\* BehavedBuilder::push
BehavedPush(bb, c, st) ==
    LET beh == Behaviour(c)
        item == [c |-> c, beh |-> beh, st |-> st]
    IN  CASE beh.b = "weak" ->
                IF bb.last.b = "weak"
                THEN LET n == Len(bb.staged)
                     IN  IF n > 0 /\ bb.staged[n].beh.b = "weak"
                            /\ beh.l < bb.staged[n].beh.l
                         THEN [bb EXCEPT !.staged[n] = item, !.last = beh]
                         ELSE bb
                ELSE IF bb.last.b = "supportive"
                     THEN [bb EXCEPT !.staged = Append(@, item), !.last = beh]
                     ELSE bb
          [] beh.b = "supportive" ->
                [Flush(bb, TRUE) EXCEPT !.builder = Append(@, Entry(c, st)),
                                        !.last = beh]
          [] beh.b = "destructive" ->
                [Flush(bb, FALSE) EXCEPT !.builder = Append(@, Entry(c, st)),
                                         !.last = beh]
          [] OTHER -> [bb EXCEPT !.staged = Append(@, item)]

\* BehavedBuilder::finish
BehavedFinish(bb) ==
    LET items == Flush(bb, FALSE).builder
    IN  [children |-> Children(items), shared |-> SharedChain(items)]

----------------------------------------------------------------------------
(* The sub-builders. Each accept returns whether it took the element and   *)
(* the builder it leaves.                                                  *)

Took(b) == [ok |-> TRUE, b |-> b]
Refused(b) == [ok |-> FALSE, b |-> b]

\* DocBuilder::default
DocDefault == [pages |-> <<>>, keep_next |-> TRUE, clear_next |-> "none"]

\* DocBuilder::accept as it would be if a pagebreak left keep_next alone
DocAcceptForgetful(doc, content, styles) ==
    IF content.kind = "Pagebreak"
    THEN [ok |-> TRUE, b |-> [doc EXCEPT !.clear_next = content.to]]
    ELSE IF content.kind = "Page"
    THEN [ok |-> TRUE,
          b |-> [doc EXCEPT !.pages = Append(@, Entry(content, styles)),
                            !.clear_next = "none",
                            !.keep_next = FALSE]]
    ELSE [ok |-> FALSE, b |-> doc]

\* DocBuilder::accept as it would be if a pagebreak without parity left a
\* pending parity in place
DocAcceptSticky(doc, content, styles) ==
    IF content.kind = "Pagebreak"
    THEN [ok |-> TRUE,
          b |-> [doc EXCEPT !.keep_next = ~content.weak,
                            !.clear_next = IF content.to = "none" THEN @
                                           ELSE content.to]]
    ELSE IF content.kind = "Page"
    THEN LET elem == IF doc.clear_next # "none"
                     THEN [content EXCEPT !.to = doc.clear_next]
                     ELSE content
         IN  [ok |-> TRUE,
              b |-> [doc EXCEPT !.pages = Append(@, Entry(elem, styles)),
                                !.clear_next = "none",
                                !.keep_next = FALSE]]
    ELSE [ok |-> FALSE, b |-> doc]

\* DocBuilder::accept
DocAccept(doc, content, styles) ==
    IF content.kind = "Pagebreak"
    THEN Took([doc EXCEPT !.keep_next = ~content.weak,
                          !.clear_next = content.to])
    ELSE IF content.kind = "Page"
    THEN LET elem == IF doc.clear_next # "none"
                     THEN [content EXCEPT !.to = doc.clear_next]
                     ELSE content
         IN  Took([doc EXCEPT !.pages = Append(@, Entry(elem, styles)),
                              !.clear_next = "none",
                              !.keep_next = FALSE])
    ELSE Refused(doc)

\* FlowBuilder::default
FlowDefault == [b |-> BehavedNew, last_was_parbreak |-> FALSE]

Spacing(l) == [Elem("V", l) EXCEPT !.weak = TRUE]

\* FlowBuilder::accept
FlowAccept(flow, content, styles) ==
    IF content.kind = "Parbreak"
    THEN Took([flow EXCEPT !.last_was_parbreak = TRUE])
    ELSE LET last_was_parbreak == flow.last_was_parbreak
             f1 == [flow EXCEPT !.last_was_parbreak = FALSE]
         IN  IF content.kind \in {"V", "Colbreak", "Meta", "Place"}
             THEN Took([f1 EXCEPT !.b = BehavedPush(@, content, styles)])
             ELSE IF \/ CanLayoutSingle(content.kind)
                     \/ CanLayoutMultiple(content.kind)
                     \/ content.kind = "Par"
             THEN LET is_tight_list ==
                          content.kind \in {"List", "Enum", "Terms"}
                          /\ content.tight
                      b1 == IF ~last_was_parbreak /\ is_tight_list
                            THEN BehavedPush(f1.b, Spacing(2), styles)
                            ELSE f1.b
                      b2 == BehavedPush(b1, Spacing(3), styles)
                      b3 == BehavedPush(b2, content, styles)
                      b4 == BehavedPush(b3, Spacing(3), styles)
                  IN  Took([f1 EXCEPT !.b = b4])
             ELSE Refused(f1)

\* ParBuilder::default
ParDefault == BehavedNew

\* ParBuilder::accept as it would be without the has_strong_elements test
\* of line 609
ParAcceptAnyMeta(par, content, styles) ==
    IF \/ content.kind \in {"Meta", "Space", "Text", "H", "Linebreak",
                             "SmartQuote", "Box"}
       \/ (content.kind = "Equation" /\ ~content.block)
    THEN [ok |-> TRUE, b |-> BehavedPush(par, content, styles)]
    ELSE [ok |-> FALSE, b |-> par]

\* ParBuilder::accept
ParAccept(par, content, styles) ==
    IF content.kind = "Meta"
    THEN IF HasStrongElements(par, FALSE)
         THEN Took(BehavedPush(par, content, styles))
         ELSE Refused(par)
    ELSE IF \/ content.kind \in {"Space", "Text", "H", "Linebreak",
                                 "SmartQuote", "Box"}
            \/ (content.kind = "Equation" /\ ~content.block)
         THEN Took(BehavedPush(par, content, styles))
         ELSE Refused(par)

\* ParBuilder::finish
ParFinish(par) ==
    LET fin == BehavedFinish(par)
    IN  [c |-> WithKids("Par", fin.children), st |-> fin.shared]

\* ListBuilder::default
ListDefault == [items |-> <<>>, tight |-> TRUE, staged |-> <<>>]

IsItem(c) == c.kind \in {"ListItem", "EnumItem", "TermItem"}

\* ListBuilder::accept as it would be without the comparison of the item
\* kinds of lines 660-665
ListAcceptAny(list, content, styles) ==
    IF list.items # <<>> /\ content.kind \in {"Space", "Parbreak"}
    THEN [ok |-> TRUE,
          b |-> [list EXCEPT !.staged = Append(@, Entry(content, styles))]]
    ELSE IF content.kind \in {"ListItem", "EnumItem", "TermItem"}
    THEN [ok |-> TRUE,
          b |-> [list EXCEPT
                   !.items = Append(@, Entry(content, styles)),
                   !.tight = @ /\ \A i \in 1..Len(list.staged) :
                                     list.staged[i].c.kind # "Parbreak",
                   !.staged = <<>>]]
    ELSE [ok |-> FALSE, b |-> list]

\* ListBuilder::accept as it would be if any staged token cleared `tight`
ListAcceptLoose(list, content, styles) ==
    IF list.items # <<>> /\ content.kind \in {"Space", "Parbreak"}
    THEN [ok |-> TRUE,
          b |-> [list EXCEPT !.staged = Append(@, Entry(content, styles))]]
    ELSE IF /\ content.kind \in {"ListItem", "EnumItem", "TermItem"}
            /\ (list.items = <<>> \/ list.items[1].c.kind = content.kind)
    THEN [ok |-> TRUE,
          b |-> [list EXCEPT
                   !.items = Append(@, Entry(content, styles)),
                   !.tight = @ /\ list.staged = <<>>,
                   !.staged = <<>>]]
    ELSE [ok |-> FALSE, b |-> list]

\* ListBuilder::accept
ListAccept(list, content, styles) ==
    IF list.items # <<>> /\ content.kind \in {"Space", "Parbreak"}
    THEN Took([list EXCEPT !.staged = Append(@, Entry(content, styles))])
    ELSE IF /\ IsItem(content)
            /\ (list.items = <<>> \/ list.items[1].c.kind = content.kind)
    THEN Took([list EXCEPT
                 !.items = Append(@, Entry(content, styles)),
                 !.tight = @ /\ \A i \in 1..Len(list.staged) :
                                   list.staged[i].c.kind # "Parbreak",
                 !.staged = <<>>])
    ELSE Refused(list)

\* ListBuilder::finish; "Panic" is the unwrap of a foreign item,
\* "Unreachable" the unreachable!() branch
ListFinish(list) ==
    LET items == Children(list.items)
        item == items[1]
        same(k) == \A i \in 1..Len(items) : items[i].kind = k
        output(k, ik) == IF same(ik)
                         THEN [WithKids(k, items) EXCEPT !.tight = list.tight]
                         ELSE Elem("Panic", 0)
    IN  [c |-> CASE item.kind = "ListItem" -> output("List", "ListItem")
                 [] item.kind = "EnumItem" -> output("Enum", "EnumItem")
                 [] item.kind = "TermItem" -> output("Terms", "TermItem")
                 [] OTHER -> Elem("Unreachable", 0),
         st |-> SharedChain(list.items)]

\* CiteGroupBuilder::default
CitesDefault == [styles |-> DefaultChain, items |-> <<>>, staged |-> <<>>]

\* CiteGroupBuilder::accept as it would be if a citation left the staged
\* spaces in place
CitesAcceptKeeping(cites, content, styles) ==
    IF cites.items # <<>> /\ content.kind \in {"Space", "Meta"}
    THEN [ok |-> TRUE,
          b |-> [cites EXCEPT !.staged = Append(@, Entry(content, styles))]]
    ELSE IF content.kind = "Cite"
    THEN [ok |-> TRUE,
          b |-> [cites EXCEPT
                   !.styles = IF cites.items = <<>> THEN styles ELSE @,
                   !.items = Append(@, content)]]
    ELSE [ok |-> FALSE, b |-> cites]

\* CiteGroupBuilder::accept
CitesAccept(cites, content, styles) ==
    IF cites.items # <<>> /\ content.kind \in {"Space", "Meta"}
    THEN Took([cites EXCEPT !.staged = Append(@, Entry(content, styles))])
    ELSE IF content.kind = "Cite"
    THEN Took([cites EXCEPT
                 !.styles = IF cites.items = <<>> THEN styles ELSE @,
                 !.staged = SelectSeq(@, LAMBDA e : e.c.kind # "Space"),
                 !.items = Append(@, content)])
    ELSE Refused(cites)

\* CiteGroupBuilder::finish
CitesFinish(cites) ==
    [c |-> WithKids("CiteGroup", cites.items), st |-> cites.styles]

----------------------------------------------------------------------------
(* Builder. A builder record also carries the engine's route counter       *)
(* (depth), the error a `?` or bail! returned (err, "" while Ok), and the  *)
(* history.                                                                *)

\* Builder::new
BuilderNew(top, depth) ==
    [top |-> top, doc |-> DocDefault, flow |-> FlowDefault, par |-> ParDefault,
     list |-> ListDefault, cites |-> CitesDefault,
     depth |-> depth, nest |-> 0, lvl |-> 0, err |-> "", log |-> <<>>]

Failed(s) == s.err # ""

CitesIsEmpty(s) == s.cites.items = <<>> /\ s.cites.staged = <<>>
ListIsEmpty(s) == s.list.items = <<>> /\ s.list.staged = <<>>
ParIsEmpty(s) == BehavedIsEmpty(s.par)
FlowIsEmpty(s) == BehavedIsEmpty(s.flow.b)

\* History: one entry per call, with the emptiness of the sub-builders, the
\* number of enclosing rewrites (nest), the number of enclosing interrupts
\* (lvl) and the route counter at that moment.
Event(s, ev, who, c, q, n) ==
    [ev |-> ev, who |-> who, c |-> c, q |-> q, n |-> n,
     ce |-> CitesIsEmpty(s), le |-> ListIsEmpty(s), pe |-> ParIsEmpty(s),
     fe |-> FlowIsEmpty(s), nest |-> s.nest, lvl |-> s.lvl,
     depth |-> s.depth, st |-> DefaultChain]

Log(s, ev, who, c, q, n) ==
    IF Failed(s) THEN s
    ELSE [s EXCEPT !.log = Append(@, Event(s, ev, who, c, q, n))]

\* History: the style chain that goes with the content of the last entry
WithStyles(s, st) ==
    IF Failed(s) \/ s.log = <<>> THEN s
    ELSE [s EXCEPT !.log[Len(s.log)].st = st]

\* History: an interrupt_* call that finalizes `c` begins, with `q` staged
Enter(s, who, c, q) ==
    IF Failed(s) THEN s
    ELSE [Log(s, "interrupt", who, c, q, 0) EXCEPT !.lvl = @ + 1]

\* History: that call returns Ok
Leave(s, who, c) ==
    IF Failed(s) THEN s
    ELSE [Log(s, "end", who, c, <<>>, 0) EXCEPT !.lvl = @ - 1]

\* bail!
Bail(s, msg) ==
    IF Failed(s) THEN s
    ELSE [s EXCEPT !.err = msg,
                   !.log = Append(@, Event(s, "error", msg, Nil, <<>>, 0))]

\* Route::within
Within(len, depth) == len <= depth

\* Route::increase, Route::decrease
Increase(s) == [s EXCEPT !.depth = @ + 1]
Decrease(s) == [s EXCEPT !.depth = @ - 1]

\* the test of line 318 as it would be with the limit off by one
ExceededLate(s) == ~Within(s.depth, MAX_SHOW_RULE_DEPTH + 1)

\* Builder::accept, line 318: the route is longer than the limit
Exceeded(s) == ~Within(s.depth, MAX_SHOW_RULE_DEPTH)

----------------------------------------------------------------------------
(* The call stack. A task is a call that is still to be made, or the rest  *)
(* of a call already begun: the method (op) and its arguments. `todo`      *)
(* holds the tasks in the order in which they run. Each method below takes *)
(* the builder, its task and the tasks after it, and returns the builder   *)
(* it leaves and the tasks to run next.                                    *)

Task(op, c, st) ==
    [op |-> op, c |-> c, st |-> st, map |-> NoStyles, some |-> FALSE,
     last |-> FALSE, who |-> ""]

Plain(op) == Task(op, Nil, DefaultChain)

\* interrupt_style(map, outer), outer being Some(chain) when `some`
StyleTask(map, some, outer) ==
    [Task("interrupt_style", Nil, outer) EXCEPT !.map = map, !.some = some]

\* interrupt_page(styles, last), styles being Some(chain) when `some`
PageTask(some, styles, last) ==
    [Task("interrupt_page", Nil, styles) EXCEPT !.some = some, !.last = last]

\* the Ok(()) that ends an interrupt_* call which finalized `c`
ReturnTask(who, c) == [Task("return", c, DefaultChain) EXCEPT !.who = who]

Then(s, tasks) == [s |-> s, todo |-> tasks]

\* Builder::accept, lines 309-314: a math element is wrapped in an equation
MathWrapped(content) ==
    IF CanLayoutMath(content.kind) /\ content.kind # "Equation"
    THEN WithKids("Equation", <<content>>)
    ELSE content

\* Builder::accept, lines 309-340
Accept(s, t, rest) ==
    LET c == MathWrapped(t.c)
        realized == Realize(c, t.st)
        s0 == Log(s, "realize", realized.how, c, <<realized.out>>,
                  realized.idx)
    IN  IF realized.some
        THEN IF Exceeded(Increase(s0))
             THEN Then(Bail(Increase(s0), "maximum show rule depth exceeded"),
                       rest)
             ELSE Then([Increase(s0) EXCEPT !.nest = @ + 1],
                       <<Task("accept", realized.out, t.st),
                         Plain("decrease")>> \o rest)
        ELSE IF c.kind = "Styled"
        THEN Then(s0, <<[Task("styled", c.kids[1], t.st)
                            EXCEPT !.map = c.map]>> \o rest)
        ELSE IF c.kind = "Sequence"
        THEN Then(s0, [i \in 1..Len(c.kids) |->
                         Task("accept", c.kids[i], t.st)] \o rest)
        ELSE Then(Log(s0, "leaf", "", c, <<>>, 0),
                  <<Task("cites", c, t.st)>> \o rest)

\* Builder::accept, line 327, once the nested accept has returned
AcceptDecrease(s, t, rest) ==
    Then([Decrease(s) EXCEPT !.nest = @ - 1], rest)

\* Builder::accept, lines 342-346
AcceptCites(s, t, rest) ==
    LET r == CitesAccept(s.cites, t.c, t.st)
    IN  IF r.ok
        THEN Then([WithStyles(Log(s, "accept", "cites", t.c, <<>>, 0), t.st)
                      EXCEPT !.cites = r.b], rest)
        ELSE Then(s, <<Plain("interrupt_cites"), Task("list", t.c, t.st)>>
                        \o rest)

\* Builder::accept, lines 348-352
AcceptList(s, t, rest) ==
    LET r == ListAccept(s.list, t.c, t.st)
    IN  IF r.ok
        THEN Then([Log(s, "accept", "list", t.c, <<>>, 1)
                      EXCEPT !.list = r.b], rest)
        ELSE Then(s, <<Plain("interrupt_list"), Task("par", t.c, t.st)>>
                        \o rest)

\* Builder::accept, lines 354-362
AcceptPar(s, t, rest) ==
    LET l == ListAccept(s.list, t.c, t.st)
        p == ParAccept(s.par, t.c, t.st)
    IN  IF l.ok
        THEN Then([Log(s, "accept", "list", t.c, <<>>, 2)
                      EXCEPT !.list = l.b], rest)
        ELSE IF p.ok
        THEN Then([Log(s, "accept", "par", t.c, <<>>, 0)
                      EXCEPT !.par = p.b], rest)
        ELSE Then(s, <<Plain("interrupt_par"), Task("flow", t.c, t.st)>>
                        \o rest)

\* Builder::accept, lines 364-372
AcceptFlow(s, t, rest) ==
    LET r == FlowAccept(s.flow, t.c, t.st)
        keep == t.c.kind = "Pagebreak" /\ ~t.c.weak
    IN  IF r.ok
        THEN Then([Log(s, "accept", "flow", t.c, <<>>, 0)
                      EXCEPT !.flow = r.b], rest)
        ELSE Then([s EXCEPT !.flow = r.b],
                  <<PageTask(keep, t.st, FALSE), Task("doc", t.c, t.st)>>
                      \o rest)

\* Builder::accept, line 383: the message names the element
NotAllowed(content) == content.kind \o " is not allowed here"

\* Builder::accept, lines 374-384, as it would be if the document builder
\* were asked in either mode
AcceptDocAnyMode(s, t, rest) ==
    LET r == DocAccept(s.doc, t.c, t.st)
    IN  IF r.ok
        THEN Then([Log(s, "accept", "doc", t.c, <<>>, 0)
                      EXCEPT !.doc = r.b], rest)
        ELSE IF t.c.kind = "Pagebreak"
        THEN Then(Bail(s, "pagebreaks are not allowed inside of containers"),
                  rest)
        ELSE Then(Bail(s, NotAllowed(t.c)), rest)

\* Builder::accept, lines 374-384
AcceptDoc(s, t, rest) ==
    LET r == DocAccept(s.doc, t.c, t.st)
    IN  IF s.top /\ r.ok
        THEN Then([Log(s, "accept", "doc", t.c, <<>>, 0)
                      EXCEPT !.doc = r.b], rest)
        ELSE IF t.c.kind = "Pagebreak"
        THEN Then(Bail(s, "pagebreaks are not allowed inside of containers"),
                  rest)
        ELSE Then(Bail(s, NotAllowed(t.c)), rest)

\* Builder::styled
Styled(s, t, rest) ==
    Then(s, <<StyleTask(t.map, FALSE, DefaultChain),
              Task("accept", t.c, Chain(t.st, t.map)),
              StyleTask(t.map, TRUE, Chain(t.st, t.map))>> \o rest)

\* History: interrupt_style is called at the entry (outer = None) or the
\* exit of a styled node with the local map `map`
StyleEvent(s, t) ==
    Log(s, "style", IF t.some THEN "exit" ELSE "entry",
        [Elem("Styled", 0) EXCEPT !.map = t.map], <<>>, 0)

\* Builder::interrupt_style, lines 410-416, as it would be if the test for
\* earlier content were made at the exit of the styled node as well
InterruptStyleAnyTime(s, t, rest) ==
    LET s0 == StyleEvent(s, t)
    IN  IF Interruption(t.map, "Document")
        THEN IF ~s.top
             THEN Then(Bail(s0, "document set rules are not allowed inside of containers"),
                       rest)
             ELSE IF \/ ~BehavedIsEmpty(s.flow.b)
                     \/ ~BehavedIsEmpty(s.par)
                     \/ s.list.items # <<>>
             THEN Then(Bail(s0, "document set rules must appear before any content"),
                       rest)
             ELSE Then(s0, rest)
        ELSE IF Interruption(t.map, "Page")
        THEN IF ~s.top
             THEN Then(Bail(s0, "page configuration is not allowed inside of containers"),
                       rest)
             ELSE Then(s0, <<PageTask(t.some, t.st, FALSE)>> \o rest)
        ELSE IF Interruption(t.map, "Par") \/ Interruption(t.map, "Align")
        THEN Then(s0, <<Plain("interrupt_par")>> \o rest)
        ELSE IF \/ Interruption(t.map, "List")
                \/ Interruption(t.map, "Enum")
                \/ Interruption(t.map, "Terms")
        THEN Then(s0, <<Plain("interrupt_list")>> \o rest)
        ELSE Then(s0, rest)

\* Builder::interrupt_style
InterruptStyle(s, t, rest) ==
    LET s0 == StyleEvent(s, t)
    IN  IF Interruption(t.map, "Document")
        THEN IF ~s.top
             THEN Then(Bail(s0, "document set rules are not allowed inside of containers"),
                       rest)
             ELSE IF /\ ~t.some
                     /\ (\/ ~BehavedIsEmpty(s.flow.b)
                         \/ ~BehavedIsEmpty(s.par)
                         \/ s.list.items # <<>>)
             THEN Then(Bail(s0, "document set rules must appear before any content"),
                       rest)
             ELSE Then(s0, rest)
        ELSE IF Interruption(t.map, "Page")
        THEN IF ~s.top
             THEN Then(Bail(s0, "page configuration is not allowed inside of containers"),
                       rest)
             ELSE Then(s0, <<PageTask(t.some, t.st, FALSE)>> \o rest)
        ELSE IF Interruption(t.map, "Par") \/ Interruption(t.map, "Align")
        THEN Then(s0, <<Plain("interrupt_par")>> \o rest)
        ELSE IF \/ Interruption(t.map, "List")
                \/ Interruption(t.map, "Enum")
                \/ Interruption(t.map, "Terms")
        THEN Then(s0, <<Plain("interrupt_list")>> \o rest)
        ELSE Then(s0, rest)

\* the loop over the staged tokens as it would be if it ran backwards
ReplaysReversed(staged) ==
    [i \in 1..Len(staged) |->
        Task("replay", staged[Len(staged) + 1 - i].c,
             staged[Len(staged) + 1 - i].st)]

\* interrupt_cites, lines 441-443, interrupt_list, lines 455-457: the loop
\* over the staged tokens
Replays(staged) ==
    [i \in 1..Len(staged) |-> Task("replay", staged[i].c, staged[i].st)]

\* one iteration of that loop
Replay(s, t, rest) ==
    Then(Log(s, "replay", "", t.c, <<>>, 0),
         <<Task("accept", t.c, t.st)>> \o rest)

\* interrupt_cites, lines 439-443, interrupt_list, lines 453-457: the
\* finalized group is accepted, then the staged tokens
Regroup(s, who, fin, staged, rest) ==
    Then(WithStyles(Enter(s, who, fin.c, Children(staged)), fin.st),
         (<<Task("accept", fin.c, fin.st)>> \o Replays(staged))
             \o (<<ReturnTask(who, fin.c)>> \o rest))

\* Builder::interrupt_cites
InterruptCites(s, t, rest) ==
    IF s.cites.items # <<>>
    THEN Regroup([s EXCEPT !.cites = CitesDefault], "cites",
                 CitesFinish([s.cites EXCEPT !.staged = <<>>]),
                 s.cites.staged, rest)
    ELSE Then(s, rest)

\* Builder::interrupt_list, line 449
InterruptList(s, t, rest) ==
    Then(s, <<Plain("interrupt_cites"), Plain("finalize_list")>> \o rest)

\* Builder::interrupt_list, lines 450-459
FinalizeList(s, t, rest) ==
    IF s.list.items # <<>>
    THEN Regroup([s EXCEPT !.list = ListDefault], "list",
                 ListFinish([s.list EXCEPT !.staged = <<>>]),
                 s.list.staged, rest)
    ELSE Then(s, rest)

\* Builder::interrupt_par, line 463
InterruptPar(s, t, rest) ==
    Then(s, <<Plain("interrupt_list"), Plain("finalize_par")>> \o rest)

\* Builder::interrupt_par, lines 464-470, as it would be if it finished
\* the paragraph without taking it out of the builder (no mem::take)
FinalizeParKeeping(s, t, rest) ==
    IF ~BehavedIsEmpty(s.par)
    THEN Then(Enter(s, "par", ParFinish(s.par).c, <<>>),
              <<Task("accept", ParFinish(s.par).c, ParFinish(s.par).st),
                ReturnTask("par", ParFinish(s.par).c)>> \o rest)
    ELSE Then(s, rest)

\* Builder::interrupt_par, lines 464-470
FinalizePar(s, t, rest) ==
    IF ~BehavedIsEmpty(s.par)
    THEN Then(Enter([s EXCEPT !.par = ParDefault], "par", ParFinish(s.par).c,
                    <<>>),
              <<Task("accept", ParFinish(s.par).c, ParFinish(s.par).st),
                ReturnTask("par", ParFinish(s.par).c)>> \o rest)
    ELSE Then(s, rest)

\* Builder::interrupt_page, line 478
InterruptPage(s, t, rest) ==
    Then(s, <<Plain("interrupt_par"), [t EXCEPT !.op = "finalize_page"]>>
                \o rest)

\* Builder::interrupt_page, lines 481-489: the page made of the flow, and
\* the styles it is accepted under
PageOf(flow) ==
    WithKids("Page", <<WithKids("Flow", BehavedFinish(flow.b).children)>>)

PageStyles(flow, some, styles) ==
    IF BehavedFinish(flow.b).shared = DefaultChain
    THEN (IF some THEN styles ELSE DefaultChain)
    ELSE BehavedFinish(flow.b).shared

\* Builder::interrupt_page, lines 479-493
FinalizePage(s, t, rest) ==
    IF ~s.top THEN Then(s, rest)
    ELSE IF \/ (s.doc.keep_next /\ t.some)
            \/ HasStrongElements(s.flow.b, t.last)
    THEN Then(Enter([s EXCEPT !.flow = FlowDefault], "page", PageOf(s.flow),
                    <<>>),
              <<Task("accept", PageOf(s.flow),
                     PageStyles(s.flow, t.some, t.st)),
                ReturnTask("page", PageOf(s.flow))>> \o rest)
    ELSE Then(s, rest)

\* the Ok(()) of an interrupt_* call that finalized something
Return(s, t, rest) == Then(Leave(s, t.who, t.c), rest)

----------------------------------------------------------------------------
(* The entry points. The content handed to realize_root / realize_block is *)
(* a sequence, and AcceptNext is one iteration of the loop over its        *)
(* children (a sequence cannot LayoutMultiple, so realize_block does not   *)
(* return early at line 58), or, for realize_block, it is a single         *)
(* element, handled by RealizeBlock.                                       *)


BaseChain == <<SetMap({"Text"})>>

At(c, i) == [c EXCEPT !.id = i]

StyledNode(c, map) == [Elem("Styled", 0) EXCEPT !.kids = <<c>>, !.map = map]

\* The families of inputs: the entry point, its style chain, the length of
\* the engine's route when it is called, and the elements.
Scenarios ==
    << \* pages
       [mode |-> "root", styles |-> BaseChain, route |-> 0,
        inputs |-> {Text(<<"a">>), Pagebreak(FALSE, "none"),
                    Pagebreak(TRUE, "none"), Pagebreak(FALSE, "odd"),
                    Elem("Meta", 0), Elem("Page", 0),
                    StyledNode(Text(<<"i">>), SetMap({"Page"}))}],
       \* lists
       [mode |-> "block", styles |-> BaseChain, route |-> 0,
        inputs |-> {Elem("ListItem", 0), Elem("EnumItem", 0), Elem("Space", 0),
                    Elem("Parbreak", 0), Text(<<"a">>),
                    WithKids("Sequence",
                             <<Elem("Parbreak", 0), Elem("ListItem", 0)>>)}],
       \* citations
       [mode |-> "block", styles |-> BaseChain, route |-> 0,
        inputs |-> {Elem("Cite", 0), Elem("Space", 0), Elem("Meta", 0),
                    WithKids("Sequence", <<Elem("Space", 0), Elem("Meta", 0)>>),
                    StyledNode(Elem("Cite", 0), SetMap({"Text"})),
                    Text(<<"a">>), Elem("ListItem", 0)}],
       \* a show rule that turns a list into a citation
       [mode |-> "block", route |-> 0,
        styles |-> <<RecipeMap(Recipe(SelElem("List"), TrConst("Cite")))>>,
        inputs |-> {Elem("ListItem", 0), Elem("Space", 0), Text(<<"a">>),
                    Elem("List", 0)}],
       \* a show rule that rewraps its target in a fresh element
       [mode |-> "block", route |-> 0,
        styles |-> <<RecipeMap(Recipe(SelElem("Text"), TrFresh))>>,
        inputs |-> {Text(<<"a">>), Elem("Space", 0)}],
       \* the same, called from a layouter two levels down the route
       [mode |-> "block", route |-> 2,
        styles |-> <<RecipeMap(Recipe(SelElem("Text"), TrFresh))>>,
        inputs |-> {Text(<<"a">>), Elem("Space", 0)}],
       \* a show rule that hands its target back
       [mode |-> "block", route |-> 0,
        styles |-> <<RecipeMap(Recipe(SelElem("Text"), TrIt))>>,
        inputs |-> {Text(<<"a">>), Elem("Heading", 0), Elem("Space", 0)}],
       \* elements that belong to a document, in a container
       [mode |-> "block", styles |-> BaseChain, route |-> 0,
        inputs |-> {Text(<<"a">>), Pagebreak(FALSE, "none"),
                    Pagebreak(TRUE, "none"), Elem("Page", 0),
                    Elem("ListItem", 0), Elem("Block", 0),
                    StyledNode(Text(<<"a">>), SetMap({"Document"}))}],
       \* document set rules, before and after content
       [mode |-> "root", styles |-> BaseChain, route |-> 0,
        inputs |-> {Text(<<"a">>), Elem("Cite", 0), Elem("ListItem", 0),
                    Pagebreak(FALSE, "none"),
                    StyledNode(Text(<<"a">>), SetMap({"Document"})),
                    StyledNode(Text(<<"i">>), SetMap({"Document", "Page"}))}],
       \* a show rule that turns a list into a list item
       [mode |-> "block", route |-> 0,
        styles |-> <<RecipeMap(Recipe(SelElem("List"), TrConst("ListItem")))>>,
        inputs |-> {Elem("ListItem", 0), Elem("EnumItem", 0), Elem("Space", 0)}],
       \* a show rule that turns a text into a page, in a container
       [mode |-> "block", route |-> 1,
        styles |-> <<RecipeMap(Recipe(SelElem("Text"), TrConst("Page")))>>,
        inputs |-> {Text(<<"a">>), Elem("Space", 0)}]
    >>

NumInputs(s) == Cardinality({i \in 1..Len(s.log) : s.log[i].ev = "input"})

\* the content is a single element, not a sequence
Whole(s) ==
    \E i \in 1..Len(s.log) : s.log[i].ev = "input" /\ s.log[i].who = "whole"

NoResult == [ok |-> FALSE, c |-> Nil, st |-> DefaultChain]
Returned(c, st) == [ok |-> TRUE, c |-> c, st |-> st]

Init ==
    /\ scn \in 1..Len(Scenarios)
    /\ mode = Scenarios[scn].mode
    /\ styles0 = Scenarios[scn].styles
    /\ bld = BuilderNew(mode = "root", Scenarios[scn].route)
    /\ todo = <<>>
    /\ phase = "feed"
    /\ result = NoResult
    /\ ptarget = Nil
    /\ pstyles = DefaultChain
    /\ pres = <<>>

\* realize_root, line 42, realize_block, line 65: Builder::accept on the
\* next child of the content (lines 336-338)
AcceptNext ==
    /\ phase = "feed"
    /\ todo = <<>>
    /\ ~Whole(bld)
    /\ NumInputs(bld) < MaxLen
    /\ \E c \in Scenarios[scn].inputs :
          LET i == NumInputs(bld) + 1
          IN  /\ bld' = Log(bld, "input", "", At(c, i), <<>>, i)
              /\ todo' = <<Task("accept", At(c, i), styles0)>>
    /\ UNCHANGED <<scn, mode, styles0, phase, result, ptarget, pstyles, pres>>

\* realize_block, line 58, as it would be if it did not ask applicable
ShortCircuitsUnasked(content, styles) == CanLayoutMultiple(content.kind)

\* realize_block, line 58: the content is ready for layout as it is
ShortCircuits(content, styles) ==
    CanLayoutMultiple(content.kind) /\ ~Applicable(content, styles)

\* realize_block, lines 58-65, on a content that is a single element: it
\* is returned as it is, or a Builder is made and accepts it
RealizeBlock ==
    /\ phase = "feed"
    /\ todo = <<>>
    /\ mode = "block"
    /\ NumInputs(bld) = 0
    /\ \E c \in Scenarios[scn].inputs :
          /\ bld' = Log(bld, "input", "whole", At(c, 1), <<>>, 1)
          /\ IF ShortCircuits(At(c, 1), styles0)
             THEN /\ result' = Returned(At(c, 1), styles0)
                  /\ phase' = "done"
                  /\ todo' = <<>>
             ELSE /\ todo' = <<Task("accept", At(c, 1), styles0)>>
                  /\ UNCHANGED <<phase, result>>
    /\ UNCHANGED <<scn, mode, styles0, ptarget, pstyles, pres>>

\* realize_root, line 43
FinishRoot ==
    /\ phase = "feed"
    /\ todo = <<>>
    /\ mode = "root"
    /\ todo' = <<PageTask(TRUE, styles0, TRUE)>>
    /\ phase' = "finish"
    /\ UNCHANGED <<scn, mode, styles0, bld, result, ptarget, pstyles, pres>>

\* realize_block, line 66
FinishBlock ==
    /\ phase = "feed"
    /\ todo = <<>>
    /\ mode = "block"
    /\ todo' = <<Plain("interrupt_par")>>
    /\ phase' = "finish"
    /\ UNCHANGED <<scn, mode, styles0, bld, result, ptarget, pstyles, pres>>

\* realize_root, lines 44-46
ReturnRoot ==
    /\ phase = "finish"
    /\ todo = <<>>
    /\ mode = "root"
    /\ result' = Returned(WithKids("Document", Children(bld.doc.pages)),
                          SharedChain(bld.doc.pages))
    /\ phase' = "done"
    /\ UNCHANGED <<scn, mode, styles0, bld, todo, ptarget, pstyles, pres>>

\* realize_block, lines 67-69
ReturnBlock ==
    /\ phase = "finish"
    /\ todo = <<>>
    /\ mode = "block"
    /\ result' = Returned(WithKids("Flow", BehavedFinish(bld.flow.b).children),
                          BehavedFinish(bld.flow.b).shared)
    /\ phase' = "done"
    /\ UNCHANGED <<scn, mode, styles0, bld, todo, ptarget, pstyles, pres>>

\* A call is at the head of the stack
Running(op) ==
    /\ phase \in {"feed", "finish"}
    /\ todo # <<>>
    /\ Head(todo).op = op

\* The `?` after every call: an error unwinds the whole stack, and every
\* enclosing accept still runs its decrease (line 327) on the way out
Unwound(s, tasks) ==
    [s EXCEPT !.depth =
        @ - Cardinality({i \in 1..Len(tasks) : tasks[i].op = "decrease"})]

Outcome(r) ==
    /\ bld' = IF Failed(r.s) THEN Unwound(r.s, r.todo) ELSE r.s
    /\ todo' = IF Failed(r.s) THEN <<>> ELSE r.todo
    /\ phase' = IF Failed(r.s) THEN "done" ELSE phase
    /\ UNCHANGED <<scn, mode, styles0, result, ptarget, pstyles, pres>>

CallAccept ==
    Running("accept") /\ Outcome(Accept(bld, Head(todo), Tail(todo)))
CallAcceptDecrease ==
    Running("decrease") /\ Outcome(AcceptDecrease(bld, Head(todo), Tail(todo)))
CallAcceptCites ==
    Running("cites") /\ Outcome(AcceptCites(bld, Head(todo), Tail(todo)))
CallAcceptList ==
    Running("list") /\ Outcome(AcceptList(bld, Head(todo), Tail(todo)))
CallAcceptPar ==
    Running("par") /\ Outcome(AcceptPar(bld, Head(todo), Tail(todo)))
CallAcceptFlow ==
    Running("flow") /\ Outcome(AcceptFlow(bld, Head(todo), Tail(todo)))
CallAcceptDoc ==
    Running("doc") /\ Outcome(AcceptDoc(bld, Head(todo), Tail(todo)))
CallStyled ==
    Running("styled") /\ Outcome(Styled(bld, Head(todo), Tail(todo)))
CallInterruptStyle ==
    Running("interrupt_style")
    /\ Outcome(InterruptStyle(bld, Head(todo), Tail(todo)))
CallReplay ==
    Running("replay") /\ Outcome(Replay(bld, Head(todo), Tail(todo)))
CallInterruptCites ==
    Running("interrupt_cites")
    /\ Outcome(InterruptCites(bld, Head(todo), Tail(todo)))
CallInterruptList ==
    Running("interrupt_list")
    /\ Outcome(InterruptList(bld, Head(todo), Tail(todo)))
CallFinalizeList ==
    Running("finalize_list")
    /\ Outcome(FinalizeList(bld, Head(todo), Tail(todo)))
CallInterruptPar ==
    Running("interrupt_par")
    /\ Outcome(InterruptPar(bld, Head(todo), Tail(todo)))
CallFinalizePar ==
    Running("finalize_par")
    /\ Outcome(FinalizePar(bld, Head(todo), Tail(todo)))
CallInterruptPage ==
    Running("interrupt_page")
    /\ Outcome(InterruptPage(bld, Head(todo), Tail(todo)))
CallFinalizePage ==
    Running("finalize_page")
    /\ Outcome(FinalizePage(bld, Head(todo), Tail(todo)))
CallReturn ==
    Running("return") /\ Outcome(Return(bld, Head(todo), Tail(todo)))

Next ==
    \/ AcceptNext \/ RealizeBlock
    \/ FinishRoot \/ FinishBlock \/ ReturnRoot \/ ReturnBlock
    \/ CallAccept \/ CallAcceptDecrease \/ CallAcceptCites \/ CallAcceptList
    \/ CallAcceptPar \/ CallAcceptFlow \/ CallAcceptDoc
    \/ CallStyled \/ CallInterruptStyle \/ CallReplay
    \/ CallInterruptCites \/ CallInterruptList \/ CallFinalizeList
    \/ CallInterruptPar \/ CallFinalizePar
    \/ CallInterruptPage \/ CallFinalizePage \/ CallReturn

Spec == Init /\ [][Next]_vars

\* every show rule of the chain returns the guarded element it is given
TransformsReturnInput ==
    \A k \in 1..Len(Recipes(styles0)) :
        Recipes(styles0)[k].tr.t \in {"it", "style"}

\* The calls on the inputs whose show rules return their argument. They
\* run to completion on one thread: a step that can be taken is taken.
InitLive == Init /\ TransformsReturnInput

SpecLive == InitLive /\ [][Next]_vars /\ WF_vars(Next)

----------------------------------------------------------------------------
(* applicable and realize on their own: a target and a style chain drawn   *)
(* from bounded sets, and the chain of realize calls that accept makes on  *)
(* what realize returns.                                                   *)

MaxSteps == 3

PureKinds == {"Text", "Heading", "Cite"}

\* A target: prepared targets are as preparation leaves them.
Target(k, l, g, p) ==
    LET base == [Elem(k, 1) EXCEPT !.label = l, !.guards = g,
                                   !.text = IF k = "Text" THEN <<"a", "b">>
                                            ELSE <<>>]
    IN  IF p THEN PreparedElem(base) ELSE base

PureTargets ==
    {Target(k, l, g, p) : k \in PureKinds, l \in {0, 1},
                          g \in SUBSET {1, 2}, p \in BOOLEAN}

PureSelectors ==
    {SelElem("Text"), SelElem("Heading"), SelLabel(1), SelRegex("a"),
     SelOr("Text", 1)}

PureRecipes ==
    {Recipe(sel, tr) : sel \in PureSelectors,
                       tr \in {TrIt, TrFresh, TrStyle({"Text"})}}

InnerRecipes ==
    {Recipe(SelElem("Text"), TrIt), Recipe(SelLabel(1), TrStyle({"Text"}))}

\* chains with a show rule whose output carries a show rule of its own
ScopedChains ==
    {<<RecipeMap(Recipe(SelElem("Text"), TrScoped("Text")))>>,
     <<RecipeMap(Recipe(SelElem("Text"), TrIt)),
       RecipeMap(Recipe(SelElem("Text"), TrScoped("Text")))>>}

PureChains ==
    {<<RecipeMap(r)>> : r \in PureRecipes}
        \cup {<<RecipeMap(r), RecipeMap(q)>> : r \in PureRecipes,
                                               q \in InnerRecipes}
        \cup ScopedChains

Applied(target, styles) ==
    [op |-> "applicable", target |-> target, styles |-> styles,
     app |-> Applicable(target, styles), r |-> None]

Realized(target, styles) ==
    [op |-> "realize", target |-> target, styles |-> styles, app |-> FALSE,
     r |-> Realize(target, styles)]

InitRealize ==
    /\ scn = 0
    /\ mode = "pure"
    /\ styles0 = DefaultChain
    /\ bld = BuilderNew(FALSE, 0)
    /\ todo = <<>>
    /\ phase = "pure"
    /\ result = NoResult
    /\ ptarget \in PureTargets
    /\ pstyles \in PureChains
    /\ pres = <<>>

\* applicable, on the current target
CallApplicable ==
    /\ phase = "pure"
    /\ Len(pres) < MaxSteps
    /\ IF pres = <<>> THEN TRUE ELSE pres[Len(pres)].op # "applicable"
    /\ pres' = Append(pres, Applied(ptarget, pstyles))
    /\ UNCHANGED <<scn, mode, styles0, bld, todo, phase, result, ptarget, pstyles>>

\* Builder::accept, lines 316-329: realize, and what it returned becomes
\* the content of the nested accept, under the same styles
CallRealize ==
    /\ phase = "pure"
    /\ Len(pres) < MaxSteps
    /\ pres' = Append(pres, Realized(ptarget, pstyles))
    /\ ptarget' = IF Realize(ptarget, pstyles).some
                  THEN Realize(ptarget, pstyles).out ELSE ptarget
    /\ UNCHANGED <<scn, mode, styles0, bld, todo, phase, result, pstyles>>

\* Builder::accept, lines 331-340, and Builder::styled, lines 393-396: when
\* realize returned None, a styled node's element is accepted under the
\* chain extended by its map, and a sequence's children under the same chain
Descend ==
    /\ phase = "pure"
    /\ ~Realize(ptarget, pstyles).some
    /\ ptarget.kind \in {"Styled", "Sequence"}
    /\ \E i \in 1..Len(ptarget.kids) : ptarget' = ptarget.kids[i]
    /\ pstyles' = IF ptarget.kind = "Styled"
                  THEN Chain(pstyles, ptarget.map) ELSE pstyles
    /\ UNCHANGED <<scn, mode, styles0, bld, todo, phase, result, pres>>

NextRealize == CallApplicable \/ CallRealize \/ Descend

SpecRealize == InitRealize /\ [][NextRealize]_vars

----------------------------------------------------------------------------
(* Properties. The history bld.log is read through the helpers below.      *)

History == bld.log

Min(S) == CHOOSE x \in S : \A y \in S : x <= y
Max(S) == CHOOSE x \in S : \A y \in S : x >= y

ContentsOf(events) == [i \in 1..Len(events) |-> events[i].c]

\* the elements handed to the entry point so far, in order
Inputs == ContentsOf(SelectSeq(History, LAMBDA e : e.ev = "input"))

DepthError == "maximum show rule depth exceeded"

\* C1: whenever Builder::accept hands an element to a sub-builder whose
\* accept returns true, every strictly inner sub-builder is empty at that
\* moment: cites when list accepts; cites and list when par accepts; cites,
\* list and par when flow accepts; cites, list, par and flow when doc
\* accepts.
C1_InterruptCascade ==
    \A i \in 1..Len(History) :
        LET e == History[i]
        IN  e.ev = "accept" =>
              /\ e.who = "list" => e.ce
              /\ e.who = "par" => e.ce /\ e.le
              /\ e.who = "flow" => e.ce /\ e.le /\ e.pe
              /\ e.who = "doc" => e.ce /\ e.le /\ e.pe /\ e.fe

\* the event that ends the interrupt of event i, or one past the history
\* while that interrupt is still running
EndOf(i) ==
    LET ends == {j \in (i + 1)..Len(History) :
                    /\ History[j].ev = "end"
                    /\ History[j].lvl = History[i].lvl + 1}
    IN  IF ends = {} THEN Len(History) + 1 ELSE Min(ends)

\* the tokens that the interrupt of event i has replayed itself, in order
ReplayedBy(i) ==
    ContentsOf(SelectSeq(SubSeq(History, i + 1, EndOf(i) - 1),
                         LAMBDA e : /\ e.ev = "replay"
                                    /\ e.lvl = History[i].lvl + 1))

IsPrefix(a, b) == Len(a) <= Len(b) /\ a = SubSeq(b, 1, Len(a))

\* C2: when interrupt_cites or interrupt_list finalizes a nonempty group,
\* the tokens staged in that builder are handed to Builder::accept in their
\* order of arrival, each exactly once, after the accept of the finalized
\* product (the first thing the interrupt does, and over, with every rewrite
\* of the product unwound, when a token is replayed) and before anything
\* outside the interrupt (the element that triggered it included) is
\* handled.
C2_StagingFidelity ==
    \A i \in 1..Len(History) :
        LET e == History[i]
        IN  (e.ev = "interrupt" /\ e.who \in {"cites", "list"}) =>
              /\ IsPrefix(ReplayedBy(i), e.q)
              /\ EndOf(i) <= Len(History) => ReplayedBy(i) = e.q
              /\ i < Len(History) =>
                    /\ History[i + 1].ev = "realize"
                    /\ History[i + 1].c = e.c
              /\ \A k \in (i + 1)..(EndOf(i) - 1) :
                    /\ History[k].lvl > e.lvl
                    /\ (History[k].ev = "replay" /\ History[k].lvl = e.lvl + 1)
                          => History[k].nest = e.nest

\* C2, its case: a citation group with two staged tokens was finalized
\* because a text arrived, the tokens were replayed and the text was then
\* accepted by the paragraph.
C2_Witness ==
    \E i \in 1..Len(History) :
        /\ History[i].ev = "interrupt"
        /\ History[i].who = "cites"
        /\ Len(History[i].q) = 2
        /\ EndOf(i) <= Len(History)
        /\ \E k \in (EndOf(i) + 1)..Len(History) :
              /\ History[k].ev = "accept"
              /\ History[k].who = "par"
              /\ History[k].lvl = History[i].lvl
              /\ History[k].c.kind = "Text"

\* a realize step that fired a show recipe
Fired(p) == p.op = "realize" /\ p.r.how = "recipe"

\* realize under `styles` fires the recipe with depth index d on c
Refires(c, styles, d) ==
    Realize(c, styles).how = "recipe" /\ Realize(c, styles).idx = d

\* C3, as stated: whatever the transform, if the recipe at depth index d
\* fires on t and produces t', then t' is guarded against d and realize on
\* t' under the same chain does not fire that recipe again.
C3_Original ==
    \A i \in 1..Len(pres) :
        Fired(pres[i]) =>
            /\ IsGuarded(pres[i].r.out, pres[i].r.idx)
            /\ ~Refires(pres[i].r.out, pres[i].styles, pres[i].r.idx)

\* C3, amended: if the recipe at depth index d fires on t, every copy of t
\* (or of a matched piece of it) that the transform receives is guarded
\* against d, and realize on such a copy under the same chain does not fire
\* that recipe again; so t' is protected when the transform hands its
\* argument back.
C3_GuardMonotonicity ==
    \A i \in 1..Len(pres) :
        Fired(pres[i]) =>
            /\ pres[i].r.args # <<>>
            /\ \A k \in 1..Len(pres[i].r.args) :
                  /\ IsGuarded(pres[i].r.args[k], pres[i].r.idx)
                  /\ ~Refires(pres[i].r.args[k], pres[i].styles,
                              pres[i].r.idx)

\* C3, its case: a recipe fired, its transform handed the guarded copy back,
\* and realize ran again on that copy.
C3_Witness ==
    \E i \in 1..(Len(pres) - 1) :
        /\ Fired(pres[i])
        /\ pres[i].r.out = pres[i].r.args[1]
        /\ pres[i + 1].op = "realize"
        /\ pres[i + 1].target = pres[i].r.out
        /\ pres[i + 1].styles = pres[i].styles

\* C4: for every target and every chain of recipes, applicable returns true
\* if and only if realize returns Some.
C4_ApplicableAgreement ==
    \A i \in 1..Len(pres) :
        pres[i].op = "applicable" =>
            (pres[i].app <=> Realize(pres[i].target, pres[i].styles).some)

\* a realize step that rewrote its target
Rewrote(e) == e.ev = "realize" /\ e.who # "none"

\* C5: the number of enclosing rewrites never exceeds MAX_SHOW_RULE_DEPTH;
\* a rewrite made with that many around it is followed by the error
\* 'maximum show rule depth exceeded' and by nothing else, the walk being
\* over; and with a show rule that rewraps every text in a fresh text, a
\* walk that meets a text ends in that error.
C5_RecursionBound ==
    /\ bld.nest <= MAX_SHOW_RULE_DEPTH
    /\ \A i \in 1..Len(History) :
          /\ History[i].nest <= MAX_SHOW_RULE_DEPTH
          /\ (Rewrote(History[i]) /\ History[i].nest = MAX_SHOW_RULE_DEPTH) =>
                /\ Len(History) = i + 1
                /\ History[i + 1].ev = "error"
                /\ History[i + 1].who = DepthError
    /\ bld.err = DepthError => (phase = "done" /\ todo = <<>> /\ ~result.ok)
    /\ (scn \in {5, 6} /\ phase = "done"
            /\ \E i \in 1..Len(Inputs) : Inputs[i].kind = "Text") =>
          bld.err = DepthError

\* C5, its case: a walk that made MAX_SHOW_RULE_DEPTH nested rewrites and
\* ended in the error.
C5_Witness ==
    /\ scn = 5
    /\ bld.err = DepthError
    /\ \E i \in 1..Len(History) :
          Rewrote(History[i]) /\ History[i].nest = MAX_SHOW_RULE_DEPTH

\* the greatest number of synthesize calls made on an element of c
RECURSIVE MaxSynth(_)
MaxSynth(c) ==
    Max({c.synth} \cup {MaxSynth(c.kids[k]) : k \in 1..Len(c.kids)})

\* C6: preparation runs at most once per element. A realize step on a
\* prepared target does not prepare (no location, no synthesize, no second
\* mark) and accumulates no show-set styles; only unprepared targets are
\* prepared; no element is synthesized twice.
C6_PreparedOnce ==
    \A i \in 1..Len(pres) :
        pres[i].op = "realize" =>
            /\ IsPrepared(pres[i].target) =>
                  /\ pres[i].r.how # "prepare"
                  /\ MapIsEmpty(pres[i].r.map)
                  /\ MapIsEmpty(ShowSetStyles(pres[i].target, pres[i].styles))
            /\ pres[i].r.how = "prepare" => ~IsPrepared(pres[i].target)
            /\ MaxSynth(pres[i].target) <= 1
            /\ MaxSynth(pres[i].r.out) <= 1

\* C6, its case: realize prepared an element with show-set styles, and a
\* later realize step ran on the prepared copy under a chain whose show-set
\* recipe still matches it, and fired a show recipe instead.
C6_Witness ==
    \E i \in 1..Len(pres) : \E j \in (i + 1)..Len(pres) :
        /\ pres[i].op = "realize"
        /\ pres[i].r.how = "prepare"
        /\ ~MapIsEmpty(pres[i].r.map)
        /\ pres[j].op = "realize"
        /\ IsPrepared(pres[j].target)
        /\ pres[j].target.id = pres[i].target.id
        /\ pres[j].target.kind = pres[i].target.kind
        /\ ~MapIsEmpty(UserShowSet(pres[j].target, Recipes(pres[j].styles),
                                   NoStyles))
        /\ pres[j].r.how = "recipe"

ItemKindOf(k) ==
    CASE k = "List" -> "ListItem"
      [] k = "Enum" -> "EnumItem"
      [] k = "Terms" -> "TermItem"
      [] OTHER -> "none"

\* C7: the items held by the list builder are all of the kind of the first,
\* and every product of ListBuilder::finish is a List, Enum or Terms whose
\* items are all of the one kind that goes with it.
C7_HomogeneousLists ==
    /\ \A k \in 1..Len(bld.list.items) :
          /\ IsItem(bld.list.items[k].c)
          /\ bld.list.items[k].c.kind = bld.list.items[1].c.kind
    /\ \A i \in 1..Len(History) :
          (History[i].ev = "interrupt" /\ History[i].who = "list") =>
              /\ History[i].c.kind \in {"List", "Enum", "Terms"}
              /\ History[i].c.kids # <<>>
              /\ \A k \in 1..Len(History[i].c.kids) :
                    History[i].c.kids[k].kind = ItemKindOf(History[i].c.kind)

\* C7, its case: a list of two items was finalized because an item of
\* another kind arrived, which now begins a list of its own.
C7_Witness ==
    /\ \E i \in 1..Len(History) :
          /\ History[i].ev = "interrupt"
          /\ History[i].who = "list"
          /\ History[i].c.kind = "List"
          /\ Len(History[i].c.kids) = 2
    /\ bld.list.items # <<>>
    /\ bld.list.items[1].c.kind = "EnumItem"

StrongBreak(c) == c.kind = "Pagebreak" /\ ~c.weak

BreaksBefore(i) ==
    Cardinality({j \in 1..(i - 1) : Inputs[j].kind = "Pagebreak"})

\* the inputs (by position) whose text lies on a page
TextsOn(page) ==
    LET blocks == page.kids[1].kids
    IN  UNION {{blocks[k].kids[m].id : m \in {n \in 1..Len(blocks[k].kids) :
                                                blocks[k].kids[n].kind = "Text"}} :
               k \in 1..Len(blocks)}

\* C8: in root mode, without show rules or page set rules, an input of
\* texts and strong pagebreaks yields a document of (number of pagebreaks
\* + 1) pages, and each text lies on the page that as many pagebreaks
\* precede as precede the text.
C8_StrongPagebreaks ==
    (/\ scn = 1
     /\ phase = "done"
     /\ result.ok
     /\ \A i \in 1..Len(Inputs) :
           Inputs[i].kind = "Text" \/ StrongBreak(Inputs[i])) =>
        /\ Len(result.c.kids) = BreaksBefore(Len(Inputs) + 1) + 1
        /\ \A i \in 1..Len(Inputs) : \A p \in 1..Len(result.c.kids) :
              Inputs[i].kind = "Text" =>
                  (i \in TextsOn(result.c.kids[p])
                      <=> p = BreaksBefore(i) + 1)

\* C8, its case: a text between two strong pagebreaks, the first page and
\* the last being empty.
C8_Witness ==
    /\ scn = 1
    /\ phase = "done"
    /\ result.ok
    /\ Len(Inputs) = 3
    /\ StrongBreak(Inputs[1])
    /\ Inputs[2].kind = "Text"
    /\ StrongBreak(Inputs[3])
    /\ Len(result.c.kids) = 3

\* C9: whenever realize_root returns Ok, the document has at least one
\* page.
C9_AtLeastOnePage ==
    (mode = "root" /\ phase = "done" /\ result.ok) =>
        Len(result.c.kids) >= 1

\* the event of the list interrupt before event i, or 0
ListBefore(i) ==
    Max({0} \cup {j \in 1..(i - 1) :
                     History[j].ev = "interrupt" /\ History[j].who = "list"})

\* what the list builder accepted for the list finalized at event i
ListAccepted(i) ==
    ContentsOf(SelectSeq(SubSeq(History, ListBefore(i) + 1, i - 1),
                         LAMBDA e : e.ev = "accept" /\ e.who = "list"))

LastItem(cs) == Max({0} \cup {k \in 1..Len(cs) : IsItem(cs[k])})

\* C10: the product of the list builder has tight = false if and only if a
\* Parbreak was staged before a later item of that list; its items are the
\* accepted items; and the tokens it replays are those staged after the
\* last item, the tokens between two items being dropped.
C10_ListTightness ==
    \A i \in 1..Len(History) :
        (History[i].ev = "interrupt" /\ History[i].who = "list") =>
            LET cs == ListAccepted(i)
            IN  /\ History[i].c.kids = SelectSeq(cs, IsItem)
                /\ ~History[i].c.tight <=>
                      \E j \in 1..Len(cs) : \E k \in (j + 1)..Len(cs) :
                          cs[j].kind = "Parbreak" /\ IsItem(cs[k])
                /\ History[i].q = SubSeq(cs, LastItem(cs) + 1, Len(cs))

\* C10, its case: a list finalized loose: two items with a Parbreak staged
\* between them, and a token staged after the last item and replayed.
C10_Witness ==
    \E i \in 1..Len(History) :
        /\ History[i].ev = "interrupt"
        /\ History[i].who = "list"
        /\ ~History[i].c.tight
        /\ Len(History[i].c.kids) = 2
        /\ Len(History[i].q) = 1

\* the event of the citation interrupt before event i, or 0
CitesBefore(i) ==
    Max({0} \cup {j \in 1..(i - 1) :
                     History[j].ev = "interrupt" /\ History[j].who = "cites"})

\* what the citation builder accepted for the group finalized at event i
CitesAccepted(i) ==
    SelectSeq(SubSeq(History, CitesBefore(i) + 1, i - 1),
              LAMBDA e : e.ev = "accept" /\ e.who = "cites")

IsCite(c) == c.kind = "Cite"
IsMeta(c) == c.kind = "Meta"

LastCite(cs) == Max({0} \cup {k \in 1..Len(cs) : IsCite(cs[k])})

PagebreakError == "pagebreaks are not allowed inside of containers"

\* the errors of Builder::interrupt_style
DocumentInContainer ==
    "document set rules are not allowed inside of containers"
DocumentAfterContent == "document set rules must appear before any content"
PageInContainer == "page configuration is not allowed inside of containers"
StyleErrors == {DocumentInContainer, DocumentAfterContent, PageInContainer}

\* an element of kind k has reached the sub-builders
Arrived(k) ==
    \E i \in 1..Len(History) :
        History[i].ev = "leaf" /\ History[i].c.kind = k

\* the last element of the content (no product of an interrupt) that reached
\* the sub-builders
LastLeaf ==
    History[Max({i \in 1..Len(History) :
                    History[i].ev = "leaf" /\ History[i].lvl = 0})].c

\* C12: in block mode no element is accepted by a document builder; once a
\* Pagebreak has been handled the walk has failed with 'pagebreaks are not
\* allowed inside of containers', and once a Page has, with 'Page is not
\* allowed here'; the latter kind of error names the element that was
\* refused, which is no Pagebreak. In root mode a Pagebreak or a Page that
\* has been handled was accepted by the document builder, and neither of
\* the two errors is raised for them.
C12_FallthroughErrors ==
    /\ mode = "block" =>
          /\ \A i \in 1..Len(History) :
                ~(History[i].ev = "accept" /\ History[i].who = "doc")
          /\ (todo = <<>> /\ Arrived("Pagebreak")) =>
                bld.err = PagebreakError
          /\ (todo = <<>> /\ Arrived("Page")) =>
                bld.err = NotAllowed(Elem("Page", 0))
          /\ bld.err \notin ({"", PagebreakError, DepthError}
                                \cup StyleErrors) =>
                /\ bld.err = NotAllowed(LastLeaf)
                /\ LastLeaf.kind # "Pagebreak"
          /\ bld.err = PagebreakError => LastLeaf.kind = "Pagebreak"
    /\ mode = "root" =>
          /\ bld.err # PagebreakError
          /\ bld.err # NotAllowed(Elem("Page", 0))
          /\ bld.err # NotAllowed(Elem("Pagebreak", 0))
          /\ \A i \in 1..Len(History) :
                (/\ History[i].ev = "leaf"
                 /\ History[i].c.kind \in {"Pagebreak", "Page"}
                 /\ (todo = <<>> \/ \E j \in (i + 1)..Len(History) :
                                       History[j].ev = "input")) =>
                    \E j \in (i + 1)..Len(History) :
                        /\ History[j].ev = "accept"
                        /\ History[j].who = "doc"
                        /\ History[j].c = History[i].c

\* C12, its case: in block mode a text was accepted and then a Page failed
\* with 'Page is not allowed here'.
C12_Witness ==
    /\ mode = "block"
    /\ Len(Inputs) = 2
    /\ Inputs[1].kind = "Text"
    /\ Inputs[2].kind = "Page"
    /\ bld.err = NotAllowed(Elem("Page", 0))
    /\ phase = "done"

\* interrupt_style was called for a map with a Document set rule, at the
\* entry ("entry") or the exit ("exit") of its styled node
DocumentRule(e, when) ==
    e.ev = "style" /\ e.who = when /\ Interruption(e.c.map, "Document")

\* event i is followed by the error msg, which ends the walk
FailsWith(i, msg) ==
    /\ Len(History) = i + 1
    /\ History[i + 1].ev = "error"
    /\ History[i + 1].who = msg

\* C13: entering a styled node whose map has a Document set rule fails at
\* once, before the child is accepted, in block mode with 'document set
\* rules are not allowed inside of containers', and in root mode with
\* 'document set rules must appear before any content' if and only if
\* flow, par or list is nonempty at entry; otherwise the child is accepted
\* next. The 'before any content' error is raised nowhere else, so never at
\* the exit of the styled node.
C13_DocumentSetRule ==
    /\ \A i \in 1..Len(History) :
          DocumentRule(History[i], "entry") =>
              /\ mode = "block" => FailsWith(i, DocumentInContainer)
              /\ mode = "root" =>
                    /\ FailsWith(i, DocumentAfterContent) <=>
                          ~(History[i].fe /\ History[i].pe /\ History[i].le)
                    /\ (~FailsWith(i, DocumentAfterContent) /\ i < Len(History)) =>
                          History[i + 1].ev = "realize"
    /\ \A i \in 1..Len(History) :
          (History[i].ev = "error"
              /\ History[i].who \in {DocumentAfterContent, DocumentInContainer}) =>
              (i > 1 /\ DocumentRule(History[i - 1], "entry"))
    /\ \A i \in 1..Len(History) :
          DocumentRule(History[i], "exit") =>
              (i < Len(History) => History[i + 1].ev # "error")

\* C13, its case: in root mode a styled node with a Document set rule was
\* entered while the paragraph held a text, and the walk failed there.
C13_Witness ==
    /\ mode = "root"
    /\ \E i \in 1..Len(History) :
          /\ DocumentRule(History[i], "entry")
          /\ ~History[i].pe
          /\ FailsWith(i, DocumentAfterContent)

\* C13, its other cases: in block mode the entry failed; in root mode a
\* styled node with a Document set rule came first and was left again.
C13_WitnessOthers ==
    \/ /\ mode = "block"
       /\ \E i \in 1..Len(History) :
             DocumentRule(History[i], "entry") /\ FailsWith(i, DocumentInContainer)
    \/ /\ mode = "root"
       /\ \E i \in 1..Len(History) : DocumentRule(History[i], "exit")

\* the texts of the paragraphs of a page
WordsOn(page) ==
    LET blocks == page.kids[1].kids
    IN  UNION {{blocks[k].kids[m].text : m \in {n \in 1..Len(blocks[k].kids) :
                                                  blocks[k].kids[n].kind = "Text"}} :
               k \in 1..Len(blocks)}

\* the page holds a text from inside a styled node (the inputs have the
\* text "i" inside styled nodes with a Page set rule) and one from outside
\* (the text "a")
MixesInsideAndOutside(page) ==
    /\ page.kids # <<>>
    /\ <<"i">> \in WordsOn(page)
    /\ <<"a">> \in WordsOn(page)

\* C14: in root mode, when every styled node of the input has a Page set
\* rule in its map, whatever else the map sets, no page of the document
\* holds both a text from inside a styled node and a text from outside it.
C14_PageSetRuleScoping ==
    (/\ mode = "root"
     /\ phase = "done"
     /\ result.ok
     /\ \A i \in 1..Len(Inputs) :
           Inputs[i].kind = "Styled" => Interruption(Inputs[i].map, "Page")) =>
        \A p \in 1..Len(result.c.kids) :
            ~MixesInsideAndOutside(result.c.kids[p])

\* the same for maps that set nothing but the page: here it holds
C14_PageOnly ==
    (/\ mode = "root"
     /\ phase = "done"
     /\ result.ok
     /\ \A i \in 1..Len(Inputs) :
           Inputs[i].kind = "Styled" => Inputs[i].map = SetMap({"Page"})) =>
        \A p \in 1..Len(result.c.kids) :
            ~MixesInsideAndOutside(result.c.kids[p])

\* a text, a styled text with a Page set rule, a text: three pages
C14_PageOnlyCase ==
    /\ mode = "root"
    /\ phase = "done"
    /\ result.ok
    /\ Len(Inputs) = 3
    /\ Inputs[1].kind = "Text"
    /\ Inputs[2].kind = "Styled"
    /\ Inputs[3].kind = "Text"
    /\ Len(result.c.kids) = 3
    /\ WordsOn(result.c.kids[1]) = {<<"a">>}
    /\ WordsOn(result.c.kids[2]) = {<<"i">>}
    /\ WordsOn(result.c.kids[3]) = {<<"a">>}

\* realize_block was called on a single element, not on a sequence
WholeContent == Whole(bld)

\* C15: realize_block on a single element returns it as it is, with the
\* given style chain and without any step of a Builder, if and only if
\* the element can LayoutMultiple and applicable is false for it; every
\* other call that returns Ok returns a Flow element built by a Builder.
C15_ShortCircuit ==
    (WholeContent /\ phase = "done" /\ result.ok) =>
        LET content == Inputs[1]
            ready   == /\ CanLayoutMultiple(content.kind)
                       /\ ~Applicable(content, styles0)
        IN  /\ ready <=> /\ result.c = content
                         /\ result.st = styles0
                         /\ Len(History) = 1
            /\ ~ready => /\ result.c.kind = "Flow"
                         /\ result.c # content
                         /\ Len(History) > 1

\* C15, its case: a block that no show rule applies to came back as it is.
C15_Witness ==
    /\ WholeContent
    /\ phase = "done"
    /\ result.ok
    /\ Inputs[1].kind = "Block"
    /\ ~Applicable(Inputs[1], styles0)
    /\ result.c = Inputs[1]

\* C15, its other case: a list that a show rule applies to, which can
\* LayoutMultiple as well, came back as a Flow.
C15_WitnessBuilt ==
    /\ WholeContent
    /\ phase = "done"
    /\ result.ok
    /\ Inputs[1].kind = "List"
    /\ Applicable(Inputs[1], styles0)
    /\ result.c.kind = "Flow"

\* the realize steps made so far, in order
RealizeSteps == SelectSeq(pres, LAMBDA p : p.op = "realize")

\* the depth index of the k-th recipe of rs, innermost first
IndexOf(rs, k) == Len(rs) - k + 1

\* the k-th recipe of rs is a show recipe that matches the target, and the
\* target is not guarded against it
Eligible(target, rs, k) ==
    /\ ~IsStyle(rs[k])
    /\ RecipeApplicable(rs[k], target)
    /\ ~IsGuarded(target, IndexOf(rs, k))

\* ... and its transform yields content
Yields(target, rs, k) ==
    /\ Eligible(target, rs, k)
    /\ TryApply(target, rs[k], IndexOf(rs, k)).some

\* the step fired a recipe whose transform handed its argument back
HandedBack(p) ==
    /\ Fired(p)
    /\ p.r.args # <<>>
    /\ p.r.out = p.r.args[1]

\* C16: a realize step that prepares its target returns the prepared copy
\* and fires nothing; otherwise the recipe that fires is the innermost one
\* that is a show recipe, matches, is not guarded against and yields
\* content, and its output alone is returned; the built-in show runs only
\* when no such recipe exists; and along successive steps on the element
\* handed back, the indices of the recipes that fire strictly decrease
\* (each fires at most once, innermost before outer).
C16_RealizeOrder ==
    /\ \A i \in 1..Len(RealizeSteps) :
          LET p  == RealizeSteps[i]
              rs == Recipes(p.styles)
          IN  /\ (NeedsPreparation(p.target)
                     \/ ~MapIsEmpty(ShowSetStyles(p.target, p.styles))) =>
                    p.r.how = "prepare"
              /\ p.r.how = "prepare" =>
                    /\ p.r.args = <<>>
                    /\ p.r.idx = 0
                    /\ p.r.out = Prepare(p.target, p.r.map)
              /\ p.r.how = "recipe" =>
                    LET k == Len(rs) - p.r.idx + 1
                    IN  /\ k \in 1..Len(rs)
                        /\ Eligible(p.target, rs, k)
                        /\ \A j \in 1..(k - 1) : ~Yields(p.target, rs, j)
                        /\ p.r.out = TryApply(p.target, rs[k], p.r.idx).out
              /\ p.r.how = "show" =>
                    /\ CanShow(p.target.kind)
                    /\ \A j \in 1..Len(rs) : ~Yields(p.target, rs, j)
              /\ ~p.r.some =>
                    /\ ~CanShow(p.target.kind)
                    /\ \A j \in 1..Len(rs) : ~Yields(p.target, rs, j)
    /\ \A i \in 1..Len(RealizeSteps) : \A j \in (i + 1)..Len(RealizeSteps) :
          (/\ \A k \in i..(j - 1) : HandedBack(RealizeSteps[k])
           /\ Fired(RealizeSteps[j])) =>
              RealizeSteps[j].r.idx < RealizeSteps[i].r.idx

\* C16, its case: two show recipes match a text; the inner one (index 2)
\* fired and handed the text back, and the next step on it fired the outer
\* one (index 1).
C16_Witness ==
    \E i \in 1..(Len(RealizeSteps) - 1) :
        /\ HandedBack(RealizeSteps[i])
        /\ RealizeSteps[i].r.idx = 2
        /\ Fired(RealizeSteps[i + 1])
        /\ RealizeSteps[i + 1].r.idx = 1
        /\ RealizeSteps[i + 1].target = RealizeSteps[i].r.out

\* the first event after event i that no longer belongs to the accept call
\* whose element reached the sub-builders at event i, or Len(History) + 1:
\* the call logs its interrupts at the level of the element, and it is
\* over with the sub-builder that took the element or with its error
SpanEnd(i) ==
    Min({Len(History) + 1}
        \cup {j \in (i + 1)..Len(History) :
                 /\ History[j].lvl = History[i].lvl
                 /\ History[j].ev \notin {"interrupt", "accept", "error"}}
        \cup {j + 1 : j \in {k \in (i + 1)..Len(History) :
                                /\ History[k].lvl = History[i].lvl
                                /\ History[k].ev \in {"accept", "error"}}})

\* event j is logged by the accept call of event i itself
InSpan(i, j) ==
    /\ i < j
    /\ j < SpanEnd(i)
    /\ History[j].lvl = History[i].lvl

\* at event i an item reached the sub-builders, and at event j its accept
\* call finalized the open list, which held items of another kind
SecondAttempt(i, j) ==
    /\ History[i].ev = "leaf"
    /\ IsItem(History[i].c)
    /\ InSpan(i, j)
    /\ History[j].ev = "interrupt"
    /\ History[j].who = "list"

\* C17: when an item arrives while a list of another item kind is open
\* and the open list is finalized, the only sub-builder that takes the
\* item is the list builder at its second attempt, the call raises no
\* error of its own, it does take the item unless the walk failed inside
\* the interrupt, and right after it the list builder holds that item
\* alone, with tight = true and nothing staged.
C17_SecondListAttempt ==
    \A i \in 1..Len(History) : \A j \in 1..Len(History) :
        SecondAttempt(i, j) =>
            /\ ItemKindOf(History[j].c.kind) # History[i].c.kind
            /\ \A k \in 1..Len(History) :
                  InSpan(i, k) =>
                      /\ History[k].ev # "error"
                      /\ History[k].ev = "accept" =>
                            /\ History[k].who = "list"
                            /\ History[k].n = 2
                            /\ History[k].c = History[i].c
                            /\ Len(History) = k =>
                                  /\ Children(bld.list.items) = <<History[i].c>>
                                  /\ bld.list.tight
                                  /\ bld.list.staged = <<>>
            /\ (SpanEnd(i) <= Len(History) \/ (todo = <<>> /\ ~Failed(bld))) =>
                  \E k \in 1..Len(History) :
                      InSpan(i, k) /\ History[k].ev = "accept"

\* the same without show rules: here it holds
C17_WithoutShowRules ==
    scn = 2 => C17_SecondListAttempt

\* a list item, then an enum item: the list was finalized and the enum
\* item taken at the second attempt
C17_WithoutShowRulesCase ==
    /\ scn = 2
    /\ \E i \in 1..Len(History) : \E j \in 1..Len(History) :
          /\ SecondAttempt(i, j)
          /\ History[i].c.kind = "EnumItem"
          /\ \E k \in 1..Len(History) :
                /\ InSpan(i, k)
                /\ History[k].ev = "accept"
                /\ History[k].n = 2

\* a sub-builder took an element before event i
AcceptedBefore(i) ==
    \E j \in 1..(i - 1) : History[j].ev = "accept"

\* C18: in root mode, entering a styled node with a Document set rule
\* after any sub-builder has taken an element (a citation still held by
\* the citation builder and content already closed into a page included)
\* fails with 'document set rules must appear before any content'.
C18_DocumentBeforeContent ==
    \A i \in 1..Len(History) :
        (/\ mode = "root"
         /\ DocumentRule(History[i], "entry")
         /\ AcceptedBefore(i)) =>
            FailsWith(i, DocumentAfterContent)

\* the same when flow, par or list still holds something at the entry:
\* here it holds
C18_OpenContent ==
    \A i \in 1..Len(History) :
        (/\ mode = "root"
         /\ DocumentRule(History[i], "entry")
         /\ ~(History[i].fe /\ History[i].pe /\ History[i].le)) =>
            /\ AcceptedBefore(i)
            /\ FailsWith(i, DocumentAfterContent)

\* a citation is held by the citation builder when the styled node is
\* entered, and no error follows
C18_HeldCitation ==
    \E i \in 1..Len(History) :
        /\ mode = "root"
        /\ DocumentRule(History[i], "entry")
        /\ ~History[i].ce
        /\ ~FailsWith(i, DocumentAfterContent)

\* the length of the engine's route when the entry point was called
RouteAtEntry == IF mode = "pure" THEN 0 ELSE Scenarios[scn].route

\* C19: whenever the outermost Builder::accept call has returned, with Ok
\* or with any error, the depth counter of the route is what it was when
\* the call was made.
C19_DepthBalance ==
    todo = <<>> => bld.depth = RouteAtEntry

\* the same for calls that return Ok or an error other than 'maximum show
\* rule depth exceeded': here it holds
C19_OtherReturns ==
    (todo = <<>> /\ bld.err # DepthError) => bld.depth = RouteAtEntry

\* a rewrite was made and undone, and an error was raised under a rewrite
C19_OtherReturnsCase ==
    /\ todo = <<>>
    /\ bld.err \notin {"", DepthError}
    /\ \E i \in 1..Len(History) :
          History[i].ev = "error" /\ History[i].depth > RouteAtEntry

\* the recipe of the chain that has the depth index d
RecipeAt(styles, d) == Recipes(styles)[Len(Recipes(styles)) - d + 1]

\* C20: applicable and realize give the innermost recipe of a chain the
\* index N (the number of recipes) and the outermost the index 1: applicable
\* is true of a target that is neither to be prepared nor showable exactly
\* if some matching recipe is not guarded against at that index, and the
\* recipe that realize fires with index d is the matching, unguarded recipe
\* at that index. A recipe keeps its index in every extension of the chain,
\* and a target guarded against d under the outer chain never fires the
\* recipe with index d under an extension.
C20_IndexStability ==
    /\ \A i \in 1..Len(pres) :
          LET p  == pres[i]
              rs == Recipes(p.styles)
          IN  /\ (/\ p.op = "applicable"
                  /\ ~NeedsPreparation(p.target)
                  /\ ~CanShow(p.target.kind)) =>
                     (p.app <=>
                        \E k \in 1..Len(rs) :
                            /\ RecipeApplicable(rs[k], p.target)
                            /\ ~IsGuarded(p.target, IndexOf(rs, k))
                            /\ (~IsStyle(rs[k]) \/ ~IsPrepared(p.target)))
              /\ Fired(p) =>
                    /\ p.r.idx \in 1..Len(rs)
                    /\ ~IsGuarded(p.target, p.r.idx)
                    /\ ~IsStyle(RecipeAt(p.styles, p.r.idx))
                    /\ RecipeApplicable(RecipeAt(p.styles, p.r.idx), p.target)
                    /\ \A k \in 1..Len(p.r.args) : IsGuarded(p.r.args[k], p.r.idx)
    /\ \A i \in 1..Len(pres) : \A j \in (i + 1)..Len(pres) :
          IsPrefix(pres[i].styles, pres[j].styles) =>
              /\ \A d \in 1..Len(Recipes(pres[i].styles)) :
                    RecipeAt(pres[j].styles, d) = RecipeAt(pres[i].styles, d)
              /\ (Fired(pres[i]) /\ IsGuarded(pres[j].target, pres[i].r.idx)) =>
                    ~(Fired(pres[j]) /\ pres[j].r.idx = pres[i].r.idx)

\* C20, its case: the outer recipe (index 1) fired on a text and wrapped it
\* in a styled node with a show rule of its own; under the extended chain
\* the text, guarded against 1, fired the new inner recipe with index 2.
C20_Witness ==
    \E i \in 1..Len(pres) : \E j \in (i + 1)..Len(pres) :
        /\ Fired(pres[i])
        /\ pres[i].r.idx = 1
        /\ IsPrefix(pres[i].styles, pres[j].styles)
        /\ Len(Recipes(pres[j].styles)) > Len(Recipes(pres[i].styles))
        /\ IsGuarded(pres[j].target, 1)
        /\ Fired(pres[j])
        /\ pres[j].r.idx = 2
        /\ RecipeAt(pres[j].styles, 1) = RecipeAt(pres[i].styles, 1)

\* a strong element: one that is neither weak nor invisible
IsStrong(c) == Behaviour(c).b \in {"supportive", "destructive"}

\* every Meta among the elements is preceded by a strong element
MetaFollowsStrong(elems) ==
    \A k \in 1..Len(elems) :
        elems[k].kind = "Meta" =>
            \E j \in 1..(k - 1) : IsStrong(elems[j])

\* C21: the paragraph builder takes a Meta only when the paragraph holds
\* something already, and then a strong element comes first in it; a Meta
\* it refuses finds the paragraph empty (nothing is finalized on its way)
\* and is taken by the flow; and in every paragraph the builder finalizes
\* each Meta is preceded by a strong element.
C21_MetaNeverAnchors ==
    /\ MetaFollowsStrong(Children(bld.par.builder)
                             \o [i \in 1..Len(bld.par.staged) |->
                                   bld.par.staged[i].c])
    /\ \A i \in 1..Len(History) :
          LET e == History[i]
          IN  /\ (e.ev = "accept" /\ e.who = "par" /\ e.c.kind = "Meta") =>
                    ~e.pe
              /\ (e.ev = "interrupt" /\ e.who = "par") =>
                    MetaFollowsStrong(e.c.kids)
              /\ (e.ev = "leaf" /\ e.c.kind = "Meta") =>
                    LET end == SpanEnd(i)
                        own == {k \in (i + 1)..(end - 1) :
                                   History[k].lvl = e.lvl}
                    IN  \A k \in own :
                            History[k].ev = "accept" =>
                                /\ History[k].who \in {"cites", "par", "flow"}
                                /\ History[k].who = "flow" =>
                                      \A j \in own :
                                          ~(/\ j < k
                                            /\ History[j].ev = "interrupt"
                                            /\ History[j].who = "par")

\* C21, its case: a paragraph was finalized with a Meta in it, after a
\* text.
C21_Witness ==
    \E i \in 1..Len(History) :
        /\ History[i].ev = "interrupt"
        /\ History[i].who = "par"
        /\ \E k \in 2..Len(History[i].c.kids) :
              /\ History[i].c.kids[k].kind = "Meta"
              /\ History[i].c.kids[1].kind = "Text"

\* C21, its other case: a Meta arrived while the paragraph was empty and
\* was taken by the flow.
C21_WitnessRefused ==
    \E i \in 1..Len(History) : \E k \in 1..Len(History) :
        /\ History[i].ev = "leaf"
        /\ History[i].c.kind = "Meta"
        /\ History[i].ce
        /\ InSpan(i, k)
        /\ History[k].ev = "accept"
        /\ History[k].who = "flow"

\* the citation, list and paragraph builders hold neither items nor staged
\* tokens
InnerBuildersEmpty ==
    /\ bld.cites.items = <<>>
    /\ bld.cites.staged = <<>>
    /\ bld.list.items = <<>>
    /\ bld.list.staged = <<>>
    /\ BehavedIsEmpty(bld.par)

\* C22: when realize_root or realize_block returns Ok, the citation, list
\* and paragraph builders hold nothing, whatever the input and the show
\* rules.
C22_NothingLeftBehind ==
    (phase = "done" /\ result.ok /\ ~WholeContent) => InnerBuildersEmpty

\* the same without show rules: here it holds
C22_WithoutShowRules ==
    (phase = "done" /\ result.ok /\ Recipes(styles0) = <<>>) =>
        InnerBuildersEmpty

\* a list, citations with staged tokens and a paragraph were open when the
\* input ended, and the call returned Ok
C22_WithoutShowRulesCase ==
    /\ phase = "done"
    /\ result.ok
    /\ Recipes(styles0) = <<>>
    /\ \E i \in 1..Len(History) :
          History[i].ev = "interrupt" /\ History[i].who = "cites"
              /\ History[i].q # <<>>
    /\ Inputs[Len(Inputs)].kind \in {"Meta", "Space"}

\* each interrupt has emptied its builder when it re-accepts the product
InterruptsEmptyFirst ==
    \A i \in 1..Len(History) :
        History[i].ev = "interrupt" =>
            /\ History[i].who = "cites" => History[i].ce
            /\ History[i].who = "list" => History[i].le
            /\ History[i].who = "par" => History[i].pe
            /\ History[i].who = "page" => History[i].fe

\* event k ends the interrupt that began at event i
EndsInterrupt(i, k) ==
    /\ k > i
    /\ History[k].ev = "end"
    /\ History[k].who = History[i].who
    /\ History[k].lvl = History[i].lvl + 1

\* no page is made while a new page is being accepted
NoPageWithinPage ==
    \A i \in 1..Len(History) : \A j \in (i + 1)..Len(History) :
        (/\ History[i].ev = "interrupt" /\ History[i].who = "page"
         /\ History[j].ev = "interrupt" /\ History[j].who = "page") =>
            \E k \in (i + 1)..(j - 1) : EndsInterrupt(i, k)

\* C23: with show rules that return their guarded input, every call of
\* realize_root or realize_block comes to an end, Ok or error; on the way
\* each interrupt has emptied its builder before it re-accepts its product,
\* and accepting a new page makes no further page.
C23_Termination ==
    /\ [](InterruptsEmptyFirst /\ NoPageWithinPage)
    /\ <>(phase = "done")

\* C23, its case: under a show rule that hands its target back, the rule
\* fired, a paragraph was finalized and re-accepted, and the call returned.
C23_Witness ==
    /\ TransformsReturnInput
    /\ Recipes(styles0) # <<>>
    /\ phase = "done"
    /\ result.ok
    /\ \E i \in 1..Len(History) : Rewrote(History[i]) /\ History[i].who = "recipe"
    /\ \E i \in 1..Len(History) : \E k \in 1..Len(History) :
          History[i].ev = "interrupt" /\ History[i].who = "par"
              /\ EndsInterrupt(i, k)

\* C23, its other case: in root mode two pages were made one after the
\* other.
C23_WitnessPages ==
    /\ mode = "root"
    /\ phase = "done"
    /\ result.ok
    /\ \E i \in 1..Len(History) : \E j \in (i + 1)..Len(History) :
          /\ History[i].ev = "interrupt" /\ History[i].who = "page"
          /\ History[j].ev = "interrupt" /\ History[j].who = "page"

\* what DocBuilder::accept has taken so far, in order
DocAccepted ==
    ContentsOf(SelectSeq(History,
                         LAMBDA e : e.ev = "accept" /\ e.who = "doc"))

\* the positions in DocAccepted of the pages
PagePushes == {i \in 1..Len(DocAccepted) : DocAccepted[i].kind = "Page"}

\* the parity requested by the last pagebreak taken after the page push
\* before position i (or after the start) and before position i; "none"
\* without such a pagebreak
ParityPending(i) ==
    LET from   == Max({0} \cup {j \in PagePushes : j < i})
        breaks == {j \in (from + 1)..(i - 1) :
                      DocAccepted[j].kind = "Pagebreak"}
    IN  IF breaks = {} THEN "none" ELSE DocAccepted[Max(breaks)].to

\* C24: the document builder holds one page per page it has taken, in
\* order; each carries the parity requested by the most recent pagebreak
\* taken since the page before it (none if there was no such pagebreak, or
\* if that pagebreak requested none); after a page push keep_next is false
\* and no parity is pending; after a pagebreak keep_next tells whether it
\* was strong and the pending parity is the one it requested.
C24_PagebreakParity ==
    mode = "root" =>
        /\ Len(bld.doc.pages) = Cardinality(PagePushes)
        /\ \A i \in PagePushes :
              LET k == Cardinality({j \in PagePushes : j <= i})
              IN  /\ bld.doc.pages[k].c.to = ParityPending(i)
                  /\ [bld.doc.pages[k].c EXCEPT !.to = "none"] = DocAccepted[i]
        /\ DocAccepted # <<>> =>
              LET last == DocAccepted[Len(DocAccepted)]
              IN  IF last.kind = "Page"
                  THEN ~bld.doc.keep_next /\ bld.doc.clear_next = "none"
                  ELSE /\ bld.doc.keep_next = ~last.weak
                       /\ bld.doc.clear_next = last.to

\* C24, its case: a pagebreak to an odd page was followed by a page, which
\* carries the parity, and the page after that one carries none.
C24_Witness ==
    /\ mode = "root"
    /\ \E k \in 1..(Len(bld.doc.pages) - 1) :
          /\ bld.doc.pages[k].c.to = "odd"
          /\ bld.doc.pages[k + 1].c.to = "none"

\* C24, its other case: a pagebreak without parity came after a pagebreak
\* to an odd page and before any page, and the page that followed carries
\* no parity.
C24_WitnessOverwritten ==
    /\ mode = "root"
    /\ \E i \in PagePushes :
          /\ i > 2
          /\ DocAccepted[i - 2].kind = "Pagebreak"
          /\ DocAccepted[i - 2].to = "odd"
          /\ DocAccepted[i - 1].kind = "Pagebreak"
          /\ DocAccepted[i - 1].to = "none"
          /\ bld.doc.pages[Cardinality({j \in PagePushes : j <= i})].c.to = "none"

====
